---- MODULE Spec2Model ----
(***************************************************************************)
(* Model of the chat engine of chainlit-mcp-client: the ReAct loop of      *)
(* ChatEngine.process_turn (src/core/engine.py), the tool gateway          *)
(* MCPClientWrapper (src/core/mcp_client.py), the model client             *)
(* (src/core/llm.py) and the SQLite memory store                           *)
(* (src/core/memory_store.py).                                             *)
(*                                                                         *)
(* The engine is driven as interfaces/ui.py drives it: on_chat_start        *)
(* initializes the engine and starts a conversation, and each on_message   *)
(* adds the user message and iterates process_turn to its end.             *)
(* process_turn is an async generator; one action is one run of the        *)
(* generator from a suspension on external I/O (tool listing, a model      *)
(* call, a tool call) to the next one, with every event it yields on the   *)
(* way appended to events.  max_turns is an input of the turn.             *)
(***************************************************************************)
EXTENDS Integers, Sequences, FiniteSets, TLC

VARIABLES
    messages,               \* ChatEngine.messages: the in-memory history
    conversation_id,        \* ChatEngine.conversation_id
    persistent_enabled,     \* ChatEngine.persistent_enabled
    memory_dirty,           \* ChatEngine._memory_dirty
    token_usage_enabled,    \* settings.token_usage_enabled
    server_usage,           \* the model endpoint reports usage in its replies
    memory_summary_enabled, \* settings.memory_summary_enabled
    sessions,               \* MCPClientWrapper.sessions (connected servers)
    tool_to_server,         \* MCPClientWrapper.tool_to_server
    sampling_usage_events,  \* MCPClientWrapper._sampling_usage_events
    exit_stack,             \* MCPClientWrapper.exit_stack: the contexts entered
    gateway_op,             \* the last call of the gateway from outside a
                            \* turn, and what it returned or raised
    list_call,              \* the list_tools call of the gateway in progress:
                            \* the session awaited, all_tools so far, and (as
                            \* history) the routing table it started from
    st_title,               \* store: conversations table, id -> title
    st_messages,            \* store: messages table, rows in rowid order
    st_summary,             \* store: summaries table, a set of rows
    st_deleted,             \* store: ids whose conversations row was deleted
    st_now,                 \* what _utc_now() of the store returns
    listed,                 \* what the last list_conversations returned, until
                            \* the store is written again
    summary_task,           \* ChatEngine._summary_task: the scheduler's handle
    tasks,                  \* the scheduler tasks that exist (not cancelled,
                            \* not ended)
    summarizing,            \* the callers of persist_summary that await the
                            \* model: scheduler tasks and Handler
    transcript,             \* persist_summary's transcript, for each of them:
                            \* the conversation and the number of its rows
    session_ops,            \* history: conversations started again or loaded
                            \* and user messages added during a turn
    pc,                     \* position of the chat session (interfaces/ui.py)
                            \* and, inside a turn, of process_turn
    max_turns,              \* argument of the running process_turn
    i,                      \* loop index of "for i in range(max_turns)"
    tools,                  \* the turn's tool list (names of the descriptors)
    msg,                    \* the model reply being processed
    k,                      \* index of the tool call being processed in msg
    func_name,              \* name the pending tool call is dispatched under
    events,                 \* events yielded by the current/last turn
    llm_calls,              \* history: chat_completion calls of the turn
    gateway_calls,          \* history: mcp.call_tool calls of the turn
    hist0,                  \* history: messages when the turn started
    calls_granted,          \* history: model calls the turns so far were allowed
    faults                  \* history: failures of the environment so far

vars == << messages, conversation_id, persistent_enabled, memory_dirty,
           token_usage_enabled, server_usage, memory_summary_enabled,
           sessions, tool_to_server,
           sampling_usage_events, exit_stack, gateway_op, list_call, st_title,
           st_messages, st_summary,
           st_deleted, st_now, listed, summary_task, tasks, summarizing,
           transcript, session_ops, pc, max_turns, i, tools, msg, k, func_name, events, llm_calls,
           gateway_calls, hist0, calls_granted, faults >>

----------------------------------------------------------------------------
(* Bounds *)

MaxBudget == 2          \* max_turns ranges over 0..MaxBudget
MaxToolCalls == 2       \* tool calls in one model reply
MaxModelCalls == 3      \* model calls the turns of a behaviour are allowed
                        \* in total: max_turns + 1 for each turn
MaxFaults == 1          \* failures of the environment in a behaviour: a
                        \* server that does not connect or list, a model
                        \* call, tool call or store statement that raises

----------------------------------------------------------------------------
(* Values *)

NoneVal == "None"
NoId == 0               \* None, for a tool_call_id or a conversation_id
NoTask == 0             \* None, for the scheduler's handle
NoListing == [ search |-> NoneVal, fts |-> FALSE, limit |-> 0, rows |-> {} ]
SYSTEM_PROMPT == "SYSTEM_PROMPT"
assistant_name == "Assistant"

\* mcp.json, in iteration order
Servers == << "arxiv", "util" >>

ServerSet == { Servers[n] : n \in 1..Len(Servers) }

\* what a session may do when asked to list its tools: return a tool list,
\* or raise
ListAnswer(ok, tls) == [ ok |-> ok, tools |-> tls ]

BackendAnswers ==
    [ arxiv |-> { ListAnswer(TRUE, << "search_arxiv" >>),
                  ListAnswer(TRUE, << "search", "search_arxiv" >>),
                  ListAnswer(FALSE, << >>) },
      util  |-> { ListAnswer(TRUE, << "calc" >>),
                  ListAnswer(FALSE, << >>) } ]

\* a server without a session is not asked
NotAsked == ListAnswer(FALSE, << >>)

ToolNames == { "search", "search_arxiv", "calc" }

\* names a model may request: the tools and a name no backend has
RequestNames == ToolNames \cup { "lookup" }

\* texts of tool_call.function.arguments, by what the parsers make of them:
\*   json_object   {"q": "x"}       valid JSON, an object
\*   json_array    ["x"]            valid JSON, not an object
\*   py_dict       {'q': 'x'}       not JSON, a Python dict literal
\*   py_list       ('x',)           not JSON, a Python literal, not a dict
\*   garbage       q=x              neither
\*   NoneVal       the field is null or missing
ArgTexts == { "json_object", "json_array", "py_dict", "py_list", "garbage" }

Arguments == ArgTexts \cup { NoneVal }

UserContents == { "question" }

Last(s) == s[Len(s)]

Message(role, content, tool_call_id, tool_calls) ==
    [ role |-> role, content |-> content, tool_call_id |-> tool_call_id,
      tool_calls |-> tool_calls ]

Event(type, step_type, data) ==
    [ type |-> type, step_type |-> step_type, data |-> data ]

CountType(evts, type) ==
    Cardinality({ n \in 1..Len(evts) : evts[n].type = type })

----------------------------------------------------------------------------
(* Text values.  A text is a record so that an error text can carry the    *)
(* list it is formatted with.                                              *)

Str(t) == [ text |-> t, detail |-> << >> ]

NoneContent == Str(NoneVal)

\* Python truthiness of an Optional[str]
Truthy(c) == c.text # NoneVal /\ c.text # ""

\* msg.content or default
OrElse(c, default) == IF Truthy(c) THEN c ELSE default

----------------------------------------------------------------------------
(* src/core/llm.py *)

\* tools=None; "if tools:" treats None and an empty list alike
NoTools == << >>

\* a chat_completion that never passes the tool list on
chat_completion_Unoffered(msgs, tls) ==
    [ messages |-> msgs,
      offered |-> FALSE,
      tools |-> NoTools ]

\* LLMClient.chat_completion: the request parameters.  params["tools"] is
\* set only for a truthy tool list (offered is FALSE without it).
chat_completion(msgs, tls) ==
    [ messages |-> msgs,
      offered |-> tls # NoTools,
      tools |-> tls ]

----------------------------------------------------------------------------
(* src/core/mcp_client.py *)

NoRoute == [ n \in ToolNames |-> NoneVal ]

\* no list_tools call is in progress
NoListCall == [ n |-> 0, all_tools |-> << >>, previous |-> NoRoute ]

\* the loop body of list_tools for one tool of one server
RECURSIVE RegisterTools(_, _, _, _)
RegisterTools(acc, server_name, result_tools, n) ==
    IF n > Len(result_tools) THEN acc
    ELSE RegisterTools(
            [ tools |-> Append(acc.tools, result_tools[n]),
              tool_to_server |->
                  [ acc.tool_to_server EXCEPT ![result_tools[n]] = server_name ] ],
            server_name, result_tools, n + 1)

\* MCPClientWrapper.list_tools: all_tools and tool_to_server rebuilt from the
\* sessions in order; a session whose list_tools raises is skipped.
\* answers[s] is what session s does: ok and the tools it returns, or not ok
\* when its list_tools raises.
RECURSIVE list_tools(_, _, _, _)
list_tools(acc, sess, answers, n) ==
    IF n > Len(Servers) THEN acc
    ELSE LET s == Servers[n] IN
         IF s \notin sess \/ ~answers[s].ok
         THEN list_tools(acc, sess, answers, n + 1)
         ELSE list_tools(RegisterTools(acc, s, answers[s].tools, 1), sess, answers, n + 1)

\* MCPClientWrapper.call_tool up to the await: the server the call is sent
\* to, or the exception raised
call_tool(name, routes, sess) ==
    LET server_name == IF name \in DOMAIN routes THEN routes[name] ELSE NoneVal IN
    IF server_name = NoneVal
    THEN [ raised |-> TRUE, server |-> NoneVal,
           error |-> Str("Tool not found in any connected server.") ]
    ELSE IF server_name \notin sess
    THEN [ raised |-> TRUE, server |-> NoneVal,
           error |-> Str("Session is not active.") ]
    ELSE [ raised |-> FALSE, server |-> server_name, error |-> NoneContent ]

\* no call of the gateway was made yet.  Of a call are kept: the sessions it
\* queried in order, whether it raised, and what it returned: a tool list,
\* the server that served it, a text and a stop reason
NoOp == [ op |-> "none", queried |-> << >>, raised |-> FALSE,
          tools |-> << >>, server |-> NoneVal, text |-> NoneContent,
          stopReason |-> NoneVal ]

\* what connecting one server may do: succeed, or fail when the transport is
\* entered, when the session is entered, or in session.initialize()
ConnectOutcomes == { "ok", "no_transport", "no_session", "no_initialize" }

\* a context of the exit stack
Context(server_name, kind) == [ server |-> server_name, kind |-> kind ]

\* the contexts connect has entered for a server when its try block ends
Entered(server_name, outcome) ==
    CASE outcome = "no_transport" -> << >>
      [] outcome = "no_session"   -> << Context(server_name, "stdio") >>
      [] OTHER                    -> << Context(server_name, "stdio"),
                                        Context(server_name, "session") >>

\* a connect that gives up at the first server that fails
RECURSIVE connect_StopsAtFailure(_, _, _)
connect_StopsAtFailure(acc, outcomes, n) ==
    IF n > Len(Servers) THEN acc
    ELSE LET s == Servers[n]
             entered == [ acc EXCEPT !.exit_stack = @ \o Entered(s, outcomes[s]) ] IN
         IF outcomes[s] = "ok"
         THEN connect_StopsAtFailure([ entered EXCEPT !.sessions = @ \cup { s } ],
                                     outcomes, n + 1)
         ELSE entered

\* MCPClientWrapper.connect: the servers of mcp.json in order; the session
\* of a server is kept when its try block reaches the end, and an exception
\* in it is printed
RECURSIVE connect(_, _, _)
connect(acc, outcomes, n) ==
    IF n > Len(Servers) THEN acc
    ELSE LET s == Servers[n]
             entered == [ acc EXCEPT !.exit_stack = @ \o Entered(s, outcomes[s]) ] IN
         IF outcomes[s] = "ok"
         THEN connect([ entered EXCEPT !.sessions = @ \cup { s } ], outcomes, n + 1)
         ELSE connect(entered, outcomes, n + 1)

\* the servers with a session, in the iteration order of self.sessions
RECURSIVE SessionOrder(_, _)
SessionOrder(sess, n) ==
    IF n > Len(Servers) THEN << >>
    ELSE IF Servers[n] \in sess
         THEN << Servers[n] >> \o SessionOrder(sess, n + 1)
         ELSE SessionOrder(sess, n + 1)

\* a read_resource that gives up at the first session whose read raises
RECURSIVE read_resource_FailsFast(_, _, _)
read_resource_FailsFast(order, readable, n) ==
    IF n > Len(order)
    THEN [ queried |-> order, raised |-> TRUE, server |-> NoneVal ]
    ELSE IF order[n] \in readable
         THEN [ queried |-> SubSeq(order, 1, n), raised |-> FALSE, server |-> order[n] ]
         ELSE [ queried |-> SubSeq(order, 1, n), raised |-> TRUE, server |-> NoneVal ]

\* MCPClientWrapper.read_resource: the sessions are asked in order; the
\* first read that returns is returned, a read that raises is passed over,
\* and ValueError is raised after the last session.  readable holds the
\* servers whose read returns.
RECURSIVE read_resource(_, _, _)
read_resource(order, readable, n) ==
    IF n > Len(order)
    THEN [ queried |-> order, raised |-> TRUE, server |-> NoneVal ]
    ELSE IF order[n] \in readable
         THEN [ queried |-> SubSeq(order, 1, n), raised |-> FALSE, server |-> order[n] ]
         ELSE read_resource(order, readable, n + 1)

\* what the contexts of the exit stack do when aclose() exits them: all exit,
\* or one raises the RuntimeError of anyio ("Attempted to exit cancel
\* scope ..."), another RuntimeError, or another exception
CleanupOutcomes == { "ok", "cancel_scope", "runtime_error", "error" }

\* MCPClientWrapper.cleanup: aclose() exits every context of the stack, also
\* after one of them raised, and raises the exception afterwards; cleanup
\* lets a RuntimeError other than anyio's pass.  sessions and tool_to_server
\* are not written.
cleanup(sess, stack, outcome) ==
    [ sessions |-> sess, exit_stack |-> << >>, raised |-> outcome = "runtime_error" ]

\* sampling requests of a backend: systemPrompt, the contents of the
\* messages (a text, an image, or a list of content blocks, which has no
\* type attribute), maxTokens and temperature; NoneVal for a field that is
\* not set
SamplingRequests ==
    [ systemPrompt : { NoneVal, "be brief" },
      messages : { << "text" >>, << "image", "text" >>, << "text", "blocks" >> },
      maxTokens : { NoneVal, "100" },
      temperature : { NoneVal, "0.5" } ]

\* "Convert MCP messages to OpenAI-compatible message dicts": the system
\* prompt if there is one, and the text messages; msg.content.type raises
\* AttributeError for a content without the attribute
RECURSIVE Convert(_, _, _)
Convert(acc, contents, n) ==
    IF n > Len(contents) \/ acc.raised THEN acc
    ELSE CASE contents[n] = "text" ->
                Convert([ acc EXCEPT !.messages = Append(@, "user") ], contents, n + 1)
           [] contents[n] = "image" -> Convert(acc, contents, n + 1)
           [] OTHER -> [ acc EXCEPT !.raised = TRUE ]

\* what the model call of a sampling request may do: return a text, return
\* a message without content, return no choice, or raise; and the token
\* counter may raise on the text returned
SamplingReplies == { "text", "null_text", "no_choices", "call_fails", "count_fails" }

\* the usage event handle_sampling buffers
SamplingUsage == Event("usage", "local", Str("mcp_sampling"))

\* f"Error during sampling: {str(e)}"
SamplingError(e) == [ text |-> "Error during sampling: ", detail |-> << e >> ]

\* MCPClientWrapper.handle_sampling.  The conversion of the request is
\* before the try block.  In the try block: the model call; choices[0] of
\* its result (IndexError without a choice); with token counting the usage
\* event is buffered; TextContent(text=None) is a validation error.  The
\* except block returns the result with stopReason "error".
handle_sampling(request, reply, usage_enabled, buffer) ==
    LET first == IF request.systemPrompt # NoneVal THEN << "system" >> ELSE << >>
        converted == Convert([ raised |-> FALSE, messages |-> first ],
                             request.messages, 1) IN
    IF converted.raised
    THEN [ raised |-> TRUE, text |-> NoneContent, stopReason |-> NoneVal,
           buffer |-> buffer ]
    ELSE IF reply \in { "call_fails", "no_choices", "count_fails" }
    THEN [ raised |-> FALSE, text |-> SamplingError("error"),
           stopReason |-> "error", buffer |-> buffer ]
    ELSE IF reply = "null_text"
    THEN [ raised |-> FALSE, text |-> SamplingError("error"),
           stopReason |-> "error",
           buffer |-> IF usage_enabled THEN Append(buffer, SamplingUsage) ELSE buffer ]
    ELSE [ raised |-> FALSE, text |-> Str("generated"), stopReason |-> "end_turn",
           buffer |-> IF usage_enabled THEN Append(buffer, SamplingUsage) ELSE buffer ]

\* MCPClientWrapper.__init__: no session, an empty exit stack
Disconnected == [ sessions |-> {}, exit_stack |-> << >> ]

\* every server connects
AllConnect == [ s \in ServerSet |-> "ok" ]

\* MCPClientWrapper.pop_sampling_usage_events
pop_sampling_usage_events(buffer) == [ events |-> buffer, buffer |-> << >> ]

----------------------------------------------------------------------------
(* src/core/engine.py: pure parts of process_turn *)

\* no value: the call raised
NoValue == [ type |-> NoneVal, of |-> NoneVal ]

\* json.loads(func_args)
JsonLoads(func_args) ==
    CASE func_args = NoneVal       -> [ exc |-> "TypeError", value |-> NoValue ]
      [] func_args = "json_object" -> [ exc |-> NoneVal, value |-> [ type |-> "dict", of |-> func_args ] ]
      [] func_args = "json_array"  -> [ exc |-> NoneVal, value |-> [ type |-> "list", of |-> func_args ] ]
      [] OTHER                     -> [ exc |-> "JSONDecodeError", value |-> NoValue ]

\* ast.literal_eval(func_args)
LiteralEval(func_args) ==
    CASE func_args = "py_dict" -> [ exc |-> NoneVal, value |-> [ type |-> "dict", of |-> func_args ] ]
      [] func_args = "py_list" -> [ exc |-> NoneVal, value |-> [ type |-> "list", of |-> func_args ] ]
      [] OTHER                 -> [ exc |-> "ValueError", value |-> NoValue ]

EmptyDict == [ type |-> "dict", of |-> "empty" ]

\* "Parse arguments safely": args, or the exception that leaves process_turn
ParseArguments(func_args) ==
    LET js == JsonLoads(func_args) IN
    IF js.exc = NoneVal THEN [ raised |-> FALSE, args |-> js.value ]
    ELSE IF js.exc # "JSONDecodeError" THEN [ raised |-> TRUE, args |-> NoValue ]
    ELSE LET lit == LiteralEval(func_args) IN
         IF lit.exc = NoneVal /\ lit.value.type = "dict"
         THEN [ raised |-> FALSE, args |-> lit.value ]
         ELSE [ raised |-> FALSE, args |-> EmptyDict ]

SeqToSet(s) == { s[n] : n \in 1..Len(s) }

\* "Validation: ensure the tool exists", with the search heuristic
ResolveToolName(name, available_tool_names) ==
    IF name \notin SeqToSet(available_tool_names)
    THEN IF name = "search"
         THEN [ name |-> "search_arxiv", corrected |-> TRUE, raised |-> FALSE ]
         ELSE [ name |-> name, corrected |-> FALSE, raised |-> TRUE ]
    ELSE [ name |-> name, corrected |-> FALSE, raised |-> FALSE ]

NotFoundError(available_tool_names) ==
    [ text |-> "Tool not found. Available tools:", detail |-> available_tool_names ]

\* error_msg = f"Error executing tool: {str(e)}"
ErrorMsg(e) == [ text |-> "Error executing tool: ", detail |-> << e.text >> \o e.detail ]

DisplayLimit == 500

\* the characters of the texts a tool returns: a short text, a JSON list of
\* no papers, and a text of one character more than the display shows
OutputChars(text) ==
    CASE text = "short_text" ->
            << "s", "h", "o", "r", "t", "_", "t", "e", "x", "t" >>
      [] text = "json_list" -> << "[", "]" >>
      [] text = "long_text" -> [ n \in 1..(DisplayLimit + 1) |-> "x" ]
      [] OTHER -> << >>

\* content_str[:500] + "..."
Truncate(chars) ==
    SubSeq(chars, 1, IF Len(chars) < DisplayLimit THEN Len(chars) ELSE DisplayLimit)
      \o << ".", ".", "." >>

\* display_output, as the sequence of the characters shown; only what is
\* shown depends on it
Display(name, content_str) ==
    IF name = "search_arxiv" /\ content_str.text = "json_list"
    THEN [ text |-> "simplified", detail |-> OutputChars(content_str.text) ]
    ELSE [ text |-> "", detail |-> Truncate(OutputChars(content_str.text)) ]

\* a loop that runs once more than the budget
LoopContinues_OffByOne(idx, budget) == idx <= budget

\* for i in range(max_turns)
LoopContinues(idx, budget) == idx < budget

\* "if self.messages and self.messages[-1].get('role') == 'tool'"
FallbackNeeded(msgs) == msgs # << >> /\ Last(msgs).role = "tool"

\* msg.model_dump()
model_dump(m) ==
    Message("assistant", m.content, NoId, m.tool_calls)

\* "if not msg.tool_calls"
HasToolCalls(m) == m.tool_calls # << >>

\* a report that yields the reported usage next to the local estimate
UsageEvents_Both(local_enabled, usage) ==
    (IF local_enabled THEN << Event("usage", "local", Str("llm")) >> ELSE << >>)
      \o (IF usage THEN << Event("usage", "server", Str("llm")) >> ELSE << >>)

\* the usage event of one model call, if any
UsageEvents(local_enabled, usage) ==
    IF local_enabled THEN << Event("usage", "local", Str("llm")) >>
    ELSE IF usage THEN << Event("usage", "server", Str("llm")) >>
    ELSE << >>

----------------------------------------------------------------------------
(* src/core/memory_store.py and the persistence hooks of the engine *)

\* MemoryStore.add_message: the row is inserted, unless the INSERT raises
StoreOutcomes == { "ok", "raise_insert" }

add_message(rows, cid, role, content, outcome) ==
    IF outcome = "raise_insert" THEN rows
    ELSE Append(rows, [ conversation_id |-> cid, role |-> role,
                        content |-> content, created_at |-> st_now ])

\* a _store_message that does not look at persistent_enabled
StoresMessage_Unguarded(enabled, cid, content) == cid # NoId /\ Truthy(content)

\* ChatEngine._store_message
StoresMessage(enabled, cid, content) == enabled /\ cid # NoId /\ Truthy(content)

\* a _store_message that leaves the dirty flag as it is
_store_message_FlagNotSet(rows, dirty, enabled, cid, role, content, outcome) ==
    IF ~StoresMessage(enabled, cid, content)
    THEN [ rows |-> rows, dirty |-> dirty, raised |-> FALSE ]
    ELSE [ rows |-> add_message(rows, cid, role, content, outcome),
           dirty |-> dirty,
           raised |-> outcome # "ok" ]

_store_message(rows, dirty, enabled, cid, role, content, outcome) ==
    IF ~StoresMessage(enabled, cid, content)
    THEN [ rows |-> rows, dirty |-> dirty, raised |-> FALSE ]
    ELSE [ rows |-> add_message(rows, cid, role, content, outcome),
           dirty |-> IF outcome = "ok" THEN TRUE ELSE dirty,
           raised |-> outcome # "ok" ]

TitleLimit == 60

\* two spaces, a line of 61 letters and a second line
LongText ==
    "  aaaaaaaaaaaaaaaaaaaaaaaaaaaaaaaaaaaaaaaaaaaaaaaaaaaaaaaaaaaaa\nb"
\* the characters of the texts a user writes, the model answers and the
\* store is searched for
Chars(text) ==
    CASE text = "question" -> << "q", "u", "e", "s", "t", "i", "o", "n" >>
      [] text = "my question" ->
            << "m", "y", " ", "q", "u", "e", "s", "t", "i", "o", "n" >>
      [] text = "quest" -> << "q", "u", "e", "s", "t" >>
      [] text = "tion" -> << "t", "i", "o", "n" >>
      [] text = "answer" -> << "a", "n", "s", "w", "e", "r" >>
      [] text = LongText ->
            << " ", " " >> \o [ n \in 1..(TitleLimit + 1) |-> "a" ]
                \o << "\n", "b" >>
      [] OTHER -> << >>

\* user_content.strip().split("\n")[0][:60]
TitleOf(text) ==
    LET chars == Chars(text)
        inked == { n \in 1..Len(chars) : chars[n] \notin { " ", "\n", "\t" } }
        stripped == IF inked = {} THEN << >>
                    ELSE SubSeq(chars,
                                CHOOSE n \in inked : \A m \in inked : n <= m,
                                CHOOSE n \in inked : \A m \in inked : m <= n)
        breaks == { n \in 1..Len(stripped) : stripped[n] = "\n" }
        line == IF breaks = {} THEN stripped
                ELSE SubSeq(stripped, 1,
                            (CHOOSE n \in breaks : \A m \in breaks : n <= m) - 1) IN
    SubSeq(line, 1, IF Len(line) < TitleLimit THEN Len(line) ELSE TitleLimit)

\* ChatEngine._ensure_title; a title is the sequence of its characters
_ensure_title(titles, enabled, cid, user_content) ==
    IF ~enabled \/ cid = NoId THEN titles
    ELSE IF titles[cid] # << >> THEN titles
    ELSE IF TitleOf(user_content.text) # << >>
         THEN [ titles EXCEPT ![cid] = TitleOf(user_content.text) ]
         ELSE titles

----------------------------------------------------------------------------
(* State *)

NoMsg == [ content |-> NoneContent, tool_calls |-> << >> ]

EndStates == { "end_list_error", "end_llm_error", "end_answer", "end_final",
               "end_final_error", "end_silent", "raised" }

\* no process_turn is running
Idle == pc = "idle"

\* ChatEngine.__init__ and reset_context, with the settings load_settings
\* gives when the environment sets none
Init ==
    /\ messages = << Message("system", Str(SYSTEM_PROMPT), NoId, << >>) >>
    /\ conversation_id = NoId
    /\ persistent_enabled = FALSE
    /\ memory_dirty = FALSE
    /\ token_usage_enabled = TRUE      \* load_settings: the default
    /\ server_usage = FALSE            \* not read with local counting
    /\ memory_summary_enabled = TRUE
    /\ sessions = {}
    /\ tool_to_server = NoRoute
    /\ sampling_usage_events = << >>
    /\ exit_stack = << >>
    /\ gateway_op = NoOp
    /\ list_call = NoListCall
    /\ st_title = << >>
    /\ st_messages = << >>
    /\ st_summary = {}
    /\ st_deleted = {}
    /\ st_now = 0
    /\ listed = NoListing
    /\ summary_task = NoTask
    /\ tasks = {}
    /\ summarizing = {}
    /\ transcript = {}
    /\ session_ops = 0
    /\ pc = "new"
    /\ max_turns = 0
    /\ i = 0
    /\ tools = << >>
    /\ msg = NoMsg
    /\ k = 0
    /\ func_name = NoneVal
    /\ events = << >>
    /\ llm_calls = << >>
    /\ gateway_calls = << >>
    /\ hist0 = << >>
    /\ calls_granted = 0
    /\ faults = 0

turn_locals == << max_turns, i, tools, msg, k, func_name, events,
                  llm_calls, gateway_calls, hist0 >>
bound_vars == << faults >>

\* the environment may fail n more times
MayFail(n) == faults + n <= MaxFaults
settings_vars == << token_usage_enabled, server_usage, memory_summary_enabled >>
gateway_vars == << sessions, tool_to_server, sampling_usage_events, exit_stack >>
store_vars == << st_title, st_messages >>
search_vars == << st_deleted, st_now, listed >>
\* what a turn of the chat session leaves alone
scheduler_vars == << summary_task, tasks, summarizing, transcript >>
memory_vars == << st_summary, st_deleted, st_now, listed, scheduler_vars,
                 session_ops, gateway_op, list_call >>

----------------------------------------------------------------------------
(* Operations outside a turn *)

MaxUserMessages == 2    \* user messages in one history
MaxConversations == 2   \* rows the conversations table gets in a behaviour

CountRole(msgs, role) ==
    Cardinality({ n \in 1..Len(msgs) : msgs[n].role = role })

\* ChatEngine.initialize / MCPClientWrapper.connect: every configured server
\* is tried; the ones in connected get a session, the others do not start
\* and are skipped.
Initialize(connected) ==
    /\ pc = "new"
    /\ pc' = "initialized"
    /\ MayFail(Cardinality(ServerSet \ connected))
    /\ faults' = faults + Cardinality(ServerSet \ connected)
    /\ LET outcomes == [ s \in ServerSet |->
                           IF s \in connected THEN "ok" ELSE "no_transport" ]
           done == connect(Disconnected, outcomes, 1) IN
       /\ sessions' = done.sessions
       /\ exit_stack' = done.exit_stack
    /\ UNCHANGED << messages, conversation_id, persistent_enabled, memory_dirty,
                    settings_vars, memory_vars, tool_to_server, sampling_usage_events,
                    store_vars, turn_locals, calls_granted >>

\* ChatEngine.start_conversation: reset_context, and a new row of the
\* conversations table when the conversation is persistent
start_conversation(persistent) ==
    /\ messages' = << Message("system", Str(SYSTEM_PROMPT), NoId, << >>) >>
    /\ IF persistent
       THEN /\ st_title' = Append(st_title, << >>)
            /\ conversation_id' = Len(st_title) + 1
            /\ persistent_enabled' = TRUE
       ELSE /\ st_title' = st_title
            /\ conversation_id' = NoId
            /\ persistent_enabled' = FALSE

\* on_chat_start calls ChatEngine.start_conversation
StartConversation(persistent) ==
    /\ pc = "initialized"
    /\ persistent => Len(st_title) < MaxConversations
    /\ pc' = "idle"
    /\ start_conversation(persistent)
    /\ UNCHANGED << memory_dirty, settings_vars, memory_vars, gateway_vars,
                    st_messages, turn_locals, calls_granted, faults >>

\* a store outcome the environment may choose for storing content: a failure
\* only where the store is written
StoreMay(content, outcome) ==
    /\ ~StoresMessage(persistent_enabled, conversation_id, content) => outcome = "ok"
    /\ outcome # "ok" => MayFail(1)
    /\ faults' = IF outcome # "ok" THEN faults + 1 ELSE faults

\* ChatEngine.add_user_message: the message is appended, stored, and gives
\* the conversation its title; when _store_message raises, _ensure_title
\* does not run
add_user_message(content, outcome) ==
    /\ StoreMay(content, outcome)
    /\ messages' = Append(messages, Message("user", content, NoId, << >>))
    /\ LET st == _store_message(st_messages, memory_dirty, persistent_enabled,
                                conversation_id, "user", content, outcome) IN
       /\ st_messages' = st.rows
       /\ memory_dirty' = st.dirty
       /\ st_title' = IF st.raised THEN st_title
                      ELSE _ensure_title(st_title, persistent_enabled,
                                         conversation_id, content)

\* on_message calls ChatEngine.add_user_message; when it raises, the message
\* is in the history and on_message ends without a turn
AddUserMessage(content, outcome) ==
    /\ Idle
    /\ CountRole(messages, "user") < MaxUserMessages
    /\ add_user_message(content, outcome)
    /\ pc' = IF outcome # "ok" THEN "idle" ELSE "user_added"
    /\ UNCHANGED << conversation_id, persistent_enabled, settings_vars,
                    memory_vars, gateway_vars, turn_locals, calls_granted >>

----------------------------------------------------------------------------
(* process_turn *)

\* an entry of llm_calls: where the call was made, its parameters, and
\* whether it is pending, returned or failed
Call(at, params) == [ at |-> at, params |-> params, result |-> "pending" ]

Result(calls, result) == [ calls EXCEPT ![Len(calls)].result = result ]

\* a forced final call that passes the tool list like the calls of the loop
FinalCallTools_Offered(tls) == tls

\* the tools argument of the forced final call: none is passed
FinalCallTools(tls) == NoTools

\* top of "for i in range(max_turns)" and what follows the loop: the next
\* suspension of the generator, the events yielded on the way and the model
\* call made
LoopHead(msgs, evts, calls, idx, budget, tls) ==
    IF LoopContinues(idx, budget)
    THEN [ pc |-> "llm",
           events |-> Append(evts, Event("step_start", "llm", Str(assistant_name))),
           llm_calls |-> Append(calls, Call("loop", chat_completion(msgs, tls))) ]
    ELSE IF FallbackNeeded(msgs)
    THEN [ pc |-> "final",
           events |-> Append(evts, Event("step_start", "llm", Str("Assistant (Final)"))),
           llm_calls |-> Append(calls, Call("final",
                                            chat_completion(msgs, FinalCallTools(tls)))) ]
    ELSE [ pc |-> "end_silent", events |-> evts, llm_calls |-> calls ]

\* on_message starts iterating process_turn(max_turns): the generator runs to
\* the await of mcp.list_tools
ProcessTurn(budget) ==
    /\ pc = "user_added"
    /\ calls_granted + budget + 1 <= MaxModelCalls
    /\ calls_granted' = calls_granted + budget + 1
    /\ pc' = "list_tools"
    /\ max_turns' = budget
    /\ i' = 0
    /\ msg' = NoMsg
    /\ k' = 0
    /\ func_name' = NoneVal
    /\ events' = << >>
    /\ llm_calls' = << >>
    /\ gateway_calls' = << >>
    /\ hist0' = messages
    /\ UNCHANGED << messages, conversation_id, persistent_enabled, memory_dirty,
                    settings_vars, memory_vars, gateway_vars, store_vars, tools,
                    bound_vars >>

\* one answer for each session
AnswerSets ==
    { answers \in [ ServerSet -> UNION { BackendAnswers[s] : s \in ServerSet } ] :
        \A s \in ServerSet :
            IF s \in sessions THEN answers[s] \in BackendAnswers[s]
            ELSE answers[s] = NotAsked }

\* the sessions whose list_tools raises
Raising(answers) == Cardinality({ s \in sessions : ~answers[s].ok })

Listed(answers) ==
    list_tools([ tools |-> << >>, tool_to_server |-> NoRoute ], sessions,
               answers, 1)

\* mcp.list_tools returns and the tool list is built
ListToolsReturn(answers) ==
    /\ pc = "list_tools"
    /\ MayFail(Raising(answers))
    /\ faults' = faults + Raising(answers)
    /\ LET r == Listed(answers)
           h == LoopHead(messages, events, llm_calls, 0, max_turns, r.tools) IN
       /\ tools' = r.tools
       /\ tool_to_server' = r.tool_to_server
       /\ pc' = h.pc
       /\ events' = h.events
       /\ llm_calls' = h.llm_calls
    /\ UNCHANGED << messages, conversation_id, persistent_enabled, memory_dirty,
                    settings_vars, memory_vars, sessions, sampling_usage_events, exit_stack,
                    store_vars, max_turns, i, msg, k, func_name,
                    gateway_calls, hist0, calls_granted >>

\* a step 1 that announces the model step before the tools are listed
ListError_AfterStepStart(evts) ==
    [ pc |-> "end_list_error",
      events |-> evts \o << Event("step_start", "llm", Str(assistant_name)),
                            Event("error", NoneVal, Str("Failed to list tools")) >> ]

\* "except Exception as e" of step 1
ListError(evts) ==
    [ pc |-> "end_list_error",
      events |-> Append(evts, Event("error", NoneVal, Str("Failed to list tools"))) ]

\* step 1 raises (after list_tools rebuilt the routing table)
ListToolsFail(answers) ==
    /\ pc = "list_tools"
    /\ MayFail(Raising(answers) + 1)
    /\ faults' = faults + Raising(answers) + 1
    /\ tool_to_server' = Listed(answers).tool_to_server
    /\ pc' = ListError(events).pc
    /\ events' = ListError(events).events
    /\ UNCHANGED << messages, conversation_id, persistent_enabled, memory_dirty,
                    settings_vars, memory_vars, sessions, sampling_usage_events, exit_stack,
                    store_vars, max_turns, i, tools, msg, k,
                    func_name, llm_calls, gateway_calls, hist0, calls_granted >>

----------------------------------------------------------------------------
(* What the model may reply *)

Request(name, arguments) == [ name |-> name, arguments |-> arguments ]

\* replies with one tool call: every kind of arguments with a name that is
\* dispatched, a name no backend has, and names with the arguments missing
SingleRequests ==
    { Request("calc", "json_object"), Request("calc", "json_array"),
      Request("calc", "py_list"), Request("search", "garbage"),
      Request("lookup", "json_object"),
      Request("search", NoneVal), Request("lookup", NoneVal) }

\* a reply with several tool calls: an unknown name and a tool, in turns
Alternating(n, first, second) ==
    [ j \in 1..n |-> IF j % 2 = 1 THEN first ELSE second ]

RequestSeqs ==
    { << r >> : r \in SingleRequests }
    \cup { Alternating(MaxToolCalls, Request("lookup", "json_object"),
                       Request("calc", "py_dict")) }

ReplyContents == { Str("answer"), NoneContent }

\* the tool calls of a reply, with ids that no earlier reply used
ToolCalls(requests, base) ==
    [ n \in 1..Len(requests) |->
        [ id |-> 10 * base + n, name |-> requests[n].name,
          arguments |-> requests[n].arguments ] ]

\* completion.usage of the replies of the endpoint
ServerUsages == { server_usage }

----------------------------------------------------------------------------
(* process_turn: the model call of the loop *)

\* an error handler that drops the last message of the history
LLMError_Rollback(msgs, evts) ==
    [ pc |-> "end_llm_error",
      messages |-> SubSeq(msgs, 1, Len(msgs) - 1),
      events |-> Append(evts, Event("error", NoneVal, Str("LLM Error"))) ]

\* "except Exception as e" of the model call in the loop
LLMError(msgs, evts) ==
    [ pc |-> "end_llm_error",
      messages |-> msgs,
      events |-> Append(evts, Event("error", NoneVal, Str("LLM Error"))) ]

\* the model call of the loop fails
LLMFail ==
    /\ pc = "llm"
    /\ MayFail(1)
    /\ faults' = faults + 1
    /\ LET e == LLMError(messages, events) IN
       /\ pc' = e.pc
       /\ messages' = e.messages
       /\ events' = e.events
    /\ llm_calls' = Result(llm_calls, "failed")
    /\ UNCHANGED << conversation_id, persistent_enabled, memory_dirty,
                    settings_vars, memory_vars, gateway_vars, store_vars, max_turns, i,
                    tools, msg, k, func_name, gateway_calls, hist0,
                    calls_granted >>

\* a step 3 that yields the answer without appending it to the history
Finalize_NoAppend(msgs, evts, rows, dirty, reply, outcome) ==
    LET st == _store_message(rows, dirty, persistent_enabled, conversation_id,
                             "assistant", OrElse(reply.content, Str("")), outcome) IN
    [ messages |-> msgs,
      rows |-> st.rows,
      dirty |-> st.dirty,
      pc |-> IF st.raised THEN "raised" ELSE "end_answer",
      events |-> IF st.raised THEN evts
                 ELSE evts \o << Event("step_output", NoneVal, Str("Response generated.")),
                                 Event("message", NoneVal, reply.content) >> ]

\* step 3, "if not msg.tool_calls": the reply is the answer
Finalize(msgs, evts, rows, dirty, reply, outcome) ==
    LET st == _store_message(rows, dirty, persistent_enabled, conversation_id,
                             "assistant", OrElse(reply.content, Str("")), outcome) IN
    [ messages |-> Append(msgs, model_dump(reply)),
      rows |-> st.rows,
      dirty |-> st.dirty,
      pc |-> IF st.raised THEN "raised" ELSE "end_answer",
      events |-> IF st.raised THEN evts
                 ELSE evts \o << Event("step_output", NoneVal, Str("Response generated.")),
                                 Event("message", NoneVal, reply.content) >> ]

\* the model call of the loop returns a reply without tool calls
LLMAnswer(content, usage, outcome) ==
    /\ pc = "llm"
    /\ LET reply == [ content |-> content, tool_calls |-> << >> ]
           evts == events \o UsageEvents(token_usage_enabled, usage)
                     \o << Event("step_output", NoneVal,
                                 OrElse(content, Str("Tool Call Requested"))) >>
           f == Finalize(messages, evts, st_messages, memory_dirty, reply, outcome) IN
       /\ StoreMay(content, outcome)
       /\ msg' = reply
       /\ messages' = f.messages
       /\ st_messages' = f.rows
       /\ memory_dirty' = f.dirty
       /\ pc' = f.pc
       /\ events' = f.events
    /\ llm_calls' = Result(llm_calls, "returned")
    /\ UNCHANGED << conversation_id, persistent_enabled, settings_vars, memory_vars,
                    gateway_vars, st_title, max_turns, i, tools, k, func_name,
                    gateway_calls, hist0, calls_granted >>

\* the model call of the loop returns a reply with tool calls: step 4 appends
\* it and the generator goes to the first tool call
LLMToolCalls(content, requests, usage) ==
    /\ pc = "llm"
    /\ LET reply == [ content |-> content,
                      tool_calls |-> ToolCalls(requests, Len(messages)) ] IN
       /\ msg' = reply
       /\ messages' = Append(messages, model_dump(reply))
       /\ events' = events \o UsageEvents(token_usage_enabled, usage)
                      \o << Event("step_output", NoneVal,
                                  OrElse(content, Str("Tool Call Requested"))) >>
    /\ k' = 1
    /\ pc' = "tool"
    /\ llm_calls' = Result(llm_calls, "returned")
    /\ UNCHANGED << conversation_id, persistent_enabled, memory_dirty,
                    settings_vars, memory_vars, gateway_vars, store_vars, max_turns, i,
                    tools, func_name, gateway_calls, hist0,
                    calls_granted, bound_vars >>

----------------------------------------------------------------------------
(* process_turn: the tool calls of a reply *)

ToolOutputs == { Str("short_text") }

\* after a tool call: the next tool call of the reply, or the next iteration
NextStep(msgs, evts, calls) ==
    IF k < Len(msg.tool_calls)
    THEN [ pc |-> "tool", k |-> k + 1, i |-> i, events |-> evts, llm_calls |-> calls ]
    ELSE LET h == LoopHead(msgs, evts, calls, i + 1, max_turns, tools) IN
         [ pc |-> h.pc, k |-> k, i |-> i + 1, events |-> h.events,
           llm_calls |-> h.llm_calls ]

\* an error handler that shows the error without appending it to the history
ToolError_NotAppended(msgs, evts, tool_call, e) ==
    [ messages |-> msgs,
      events |-> Append(evts, Event("step_output", NoneVal, ErrorMsg(e))) ]

\* "except Exception as e" of the tool step: the error becomes the tool's
\* result
ToolError(msgs, evts, tool_call, e) ==
    [ messages |-> Append(msgs, Message("tool", ErrorMsg(e), tool_call.id, << >>)),
      events |-> Append(evts, Event("step_output", NoneVal, ErrorMsg(e))) ]

\* the tool result is shown and appended to the history
ToolResult(msgs, evts, buffer, tool_call, name, content_str) ==
    LET popped == pop_sampling_usage_events(buffer) IN
    [ messages |-> Append(msgs, Message("tool", content_str, tool_call.id, << >>)),
      events |-> Append(evts, Event("step_output", NoneVal, Display(name, content_str)))
                   \o popped.events,
      buffer |-> popped.buffer ]

Finish(after) ==
    LET n == NextStep(after.messages, after.events, llm_calls) IN
    /\ messages' = after.messages
    /\ pc' = n.pc
    /\ k' = n.k
    /\ i' = n.i
    /\ events' = n.events
    /\ llm_calls' = n.llm_calls

\* a tool call of the reply, from its step_start to the await of the
\* backend's call_tool, or to the end of the call when it fails before
ToolDispatch ==
    /\ pc = "tool"
    /\ LET tool_call == msg.tool_calls[k]
           started == Append(events, Event("step_start", "tool", Str(tool_call.name)))
           parsed == ParseArguments(tool_call.arguments)
           resolved == ResolveToolName(tool_call.name, tools)
           renamed == IF resolved.corrected
                      THEN Append(started, Event("step_update_name", NoneVal,
                                                 Str("search_arxiv (corrected)")))
                      ELSE started
           routed == call_tool(resolved.name, tool_to_server, sessions)
           call == [ name |-> resolved.name, arguments |-> parsed.args,
                     server |-> routed.server ] IN
       IF parsed.raised
       THEN /\ pc' = "raised"
            /\ events' = started
            /\ UNCHANGED << messages, k, i, llm_calls, func_name,
                            gateway_calls >>
       ELSE IF resolved.raised
       THEN /\ Finish(ToolError(messages, renamed, tool_call, NotFoundError(tools)))
            /\ UNCHANGED << func_name, gateway_calls >>
       ELSE IF routed.raised
       THEN /\ Finish(ToolError(messages, renamed, tool_call, routed.error))
            /\ gateway_calls' = Append(gateway_calls, call)
            /\ UNCHANGED func_name
       ELSE /\ pc' = "tool_call"
            /\ events' = renamed
            /\ func_name' = resolved.name
            /\ gateway_calls' = Append(gateway_calls, call)
            /\ UNCHANGED << messages, k, i, llm_calls >>
    /\ UNCHANGED << conversation_id, persistent_enabled, memory_dirty,
                    settings_vars, memory_vars, gateway_vars, store_vars, max_turns,
                    tools, msg, hist0, calls_granted, bound_vars >>

\* the backend returns the tool's result
ToolReturn(content_str) ==
    /\ pc = "tool_call"
    /\ LET r == ToolResult(messages, events, sampling_usage_events,
                           msg.tool_calls[k], func_name, content_str) IN
       /\ Finish(r)
       /\ sampling_usage_events' = r.buffer
    /\ UNCHANGED << conversation_id, persistent_enabled, memory_dirty,
                    settings_vars, memory_vars, sessions, tool_to_server, exit_stack,
                    store_vars, max_turns, tools, msg, func_name, gateway_calls,
                    hist0, calls_granted, bound_vars >>

\* the backend's call_tool raises
ToolRaise ==
    /\ pc = "tool_call"
    /\ MayFail(1)
    /\ faults' = faults + 1
    /\ Finish(ToolError(messages, events, msg.tool_calls[k], Str("tool failed")))
    /\ UNCHANGED << conversation_id, persistent_enabled, memory_dirty,
                    settings_vars, memory_vars, gateway_vars, store_vars, max_turns,
                    tools, msg, func_name, gateway_calls, hist0,
                    calls_granted >>

----------------------------------------------------------------------------
(* process_turn: the final fallback *)

\* replies to the forced final call: a text, nothing, or (a model may still
\* ask for a tool) a tool call without text
FinalReplies ==
    { [ content |-> Str("answer"), requests |-> << >> ],
      [ content |-> NoneContent, requests |-> << >> ],
      [ content |-> NoneContent, requests |-> << Request("calc", "json_object") >> ] }

\* "except Exception as e" of the final fallback
FinalError(evts) ==
    Append(evts, Event("error", NoneVal, Str("Final LLM Error")))

\* the forced final call fails
FinalFail ==
    /\ pc = "final"
    /\ MayFail(1)
    /\ faults' = faults + 1
    /\ pc' = "end_final_error"
    /\ events' = FinalError(events)
    /\ llm_calls' = Result(llm_calls, "failed")
    /\ UNCHANGED << messages, conversation_id, persistent_enabled, memory_dirty,
                    settings_vars, memory_vars, gateway_vars, store_vars, max_turns, i,
                    tools, msg, k, func_name, gateway_calls, hist0,
                    calls_granted >>

\* the forced final call returns: the reply is shown, appended, yielded as
\* the message and stored, all inside the try
FinalReturn(content, requests, usage, outcome) ==
    /\ pc = "final"
    /\ StoreMay(content, outcome)
    /\ LET reply == [ content |-> content,
                      tool_calls |-> ToolCalls(requests, Len(messages)) ]
           evts == events \o UsageEvents(token_usage_enabled, usage)
                     \o << Event("step_output", NoneVal, content),
                           Event("message", NoneVal, content) >>
           st == _store_message(st_messages, memory_dirty, persistent_enabled,
                                conversation_id, "assistant",
                                OrElse(content, Str("")), outcome) IN
       /\ msg' = reply
       /\ messages' = Append(messages, model_dump(reply))
       /\ st_messages' = st.rows
       /\ memory_dirty' = st.dirty
       /\ events' = IF st.raised THEN FinalError(evts) ELSE evts
       /\ pc' = IF st.raised THEN "end_final_error" ELSE "end_final"
    /\ llm_calls' = Result(llm_calls, "returned")
    /\ UNCHANGED << conversation_id, persistent_enabled, settings_vars, memory_vars,
                    gateway_vars, st_title, max_turns, i, tools, k, func_name,
                    gateway_calls, hist0, calls_granted >>

\* the generator is exhausted (or raised) and the caller's iteration ends:
\* the locals of process_turn are gone
Close ==
    /\ pc \in EndStates
    /\ pc' = "idle"
    /\ max_turns' = 0
    /\ i' = 0
    /\ tools' = << >>
    /\ msg' = NoMsg
    /\ k' = 0
    /\ func_name' = NoneVal
    /\ events' = << >>
    /\ llm_calls' = << >>
    /\ gateway_calls' = << >>
    /\ hist0' = << >>
    /\ UNCHANGED << messages, conversation_id, persistent_enabled, memory_dirty,
                    settings_vars, memory_vars, gateway_vars, store_vars, calls_granted,
                    bound_vars >>

----------------------------------------------------------------------------
(* Specification *)

Turn ==
    \/ \E answers \in AnswerSets : ListToolsReturn(answers)
    \/ \E answers \in AnswerSets : ListToolsFail(answers)
    \/ LLMFail
    \/ \E c \in ReplyContents, u \in ServerUsages, o \in StoreOutcomes :
          LLMAnswer(c, u, o)
    \/ \E r \in RequestSeqs, u \in ServerUsages :
          LLMToolCalls(NoneContent, r, u)
    \/ ToolDispatch
    \/ \E t \in ToolOutputs : ToolReturn(t)
    \/ ToolRaise
    \/ FinalFail
    \/ \E r \in FinalReplies, u \in ServerUsages, o \in StoreOutcomes :
          FinalReturn(r.content, r.requests, u, o)

Next ==
    \/ \E connected \in SUBSET ServerSet : Initialize(connected)
    \/ \E p \in BOOLEAN : StartConversation(p)
    \/ \E c \in UserContents, o \in StoreOutcomes : AddUserMessage(Str(c), o)
    \/ \E b \in 0..MaxBudget : ProcessTurn(b)
    \/ Turn
    \/ Close

Spec == Init /\ [][Next]_vars

\* every model call, tool listing and tool call returns or fails
FairSpec == Spec /\ WF_vars(Turn)

----------------------------------------------------------------------------
(* Properties of process_turn *)

IsPrefix(a, b) == Len(a) <= Len(b) /\ SubSeq(b, 1, Len(a)) = a

HasEvent(type) == \E n \in 1..Len(events) : events[n].type = type

ToolStarts ==
    { n \in 1..Len(events) :
        events[n].type = "step_start" /\ events[n].step_type = "tool" }

LlmStarts ==
    { n \in 1..Len(events) :
        events[n].type = "step_start" /\ events[n].step_type = "llm" }

CallsAt(at) == { n \in 1..Len(llm_calls) : llm_calls[n].at = at }

\* process_turn ran to completion: the generator is exhausted, not raised
Completed == pc \in EndStates \ { "raised" }

\* C1: a process_turn that runs to completion, whatever max_turns is and
\* whatever the model and the tools do, has yielded a message event or an
\* error event.
C1_MessageOrError ==
    Completed => HasEvent("message") \/ HasEvent("error")

\* C2: when the budget is exhausted while the last history entry is a tool
\* result, exactly one more model call is made, it offers no tool list, and
\* when it returns the turn has yielded exactly one message event and the
\* reply is the last entry of the history.
C2_ForcedFinalCall ==
    pc \in { "final", "end_final", "end_final_error" } =>
        /\ Cardinality(CallsAt("loop")) = max_turns
        /\ CallsAt("final") = { Len(llm_calls) }
        /\ ~Last(llm_calls).params.offered
        /\ Last(llm_calls).params.tools = NoTools
        /\ Last(Last(llm_calls).params.messages).role = "tool"
        /\ Last(llm_calls).result = "returned" =>
              /\ CountType(events, "message") = 1
              /\ messages = Append(Last(llm_calls).params.messages, model_dump(msg))

C2_Witness ==
    /\ pc = "end_final"
    /\ max_turns = MaxBudget
    /\ CountType(events, "message") = 1
    /\ Last(llm_calls).params.messages[Len(messages) - 1].role = "tool"

\* the calls of a turn stay within its budget
CallsWithinBudget ==
    /\ Cardinality(CallsAt("loop")) <= max_turns
    /\ Cardinality(CallsAt("final")) <= 1
    /\ Len(llm_calls) <= max_turns + 1
    /\ \A n \in 1..Len(llm_calls) : llm_calls[n].params.offered => llm_calls[n].at = "loop"
    /\ Cardinality(LlmStarts) = Len(llm_calls)

InTurn == pc \in { "list_tools", "llm", "tool", "tool_call", "final" }

\* C3: when every model call and tool call returns or fails, process_turn
\* terminates, after at most max_turns model calls that offer tools and at
\* most one forced final call, whatever the model replies.
C3_BoundedTermination ==
    /\ [](CallsWithinBudget)
    /\ InTurn ~> pc \in EndStates

C3_Witness ==
    /\ pc \in EndStates
    /\ max_turns = MaxBudget
    /\ Len(llm_calls) = max_turns + 1
    /\ \A n \in 1..max_turns : HasToolCalls(llm_calls[n + 1].params.messages[
                                    Len(llm_calls[n].params.messages) + 1])

\* C4 as stated: a reply without tool calls gives exactly one message event
\* and no tool step_start in the whole turn, is appended, and ends the turn.
C4_NoToolStepInTurn ==
    pc = "end_answer" =>
        /\ CountType(events, "message") = 1
        /\ ToolStarts = {}
        /\ Last(messages) = model_dump(msg)

\* storing the answer of the loop raised, and the exception left process_turn
AnswerStoreRaised ==
    pc = "raised" /\ ~HasToolCalls(msg) /\ Last(llm_calls).result = "returned"

\* C4, amended: a reply without tool calls ends the turn without a further
\* model call, as the last entry of the history and with no tool step_start
\* after the step_start of that reply (none in the whole turn when it is the
\* first reply).  The turn has then yielded exactly one message event, as its
\* last event, unless storing the reply raised: then the exception leaves
\* process_turn and no message event was yielded.
C4_AnswerEndsTurn ==
    /\ pc = "end_answer" =>
          /\ ~HasToolCalls(msg)
          /\ CountType(events, "message") = 1
          /\ Last(events).type = "message"
    /\ AnswerStoreRaised => persistent_enabled /\ ~HasEvent("message")
    /\ (pc = "end_answer" \/ AnswerStoreRaised) =>
          /\ \A t \in ToolStarts : \E l \in LlmStarts : l > t
          /\ Len(llm_calls) = 1 => ToolStarts = {}
          /\ messages = Append(Last(llm_calls).params.messages, model_dump(msg))
          /\ Last(llm_calls).at = "loop" /\ Last(llm_calls).result = "returned"
          /\ Len(llm_calls) = i + 1

C4_Witness ==
    /\ pc = "end_answer"
    /\ Len(llm_calls) = 1
    /\ Last(messages).role = "assistant"

\* the tool call being processed
tool_call == msg.tool_calls[k]

\* the events the step from this state to the next one yields
Yielded == SubSeq(events', Len(events) + 1, Len(events'))

YieldedTypes == { Yielded[n].type : n \in 1..Len(Yielded) }

\* C5: whatever the arguments of a tool call are (JSON, a Python literal,
\* neither, or missing), process_turn does not raise: the tool step goes on,
\* with an empty mapping when the text is neither JSON nor a literal mapping.
C5_ArgumentsNeverRaise ==
    [][ pc = "tool" =>
          /\ pc' # "raised"
          /\ (tool_call.arguments \in { "garbage", "py_list" } /\ pc' = "tool_call")
                => Last(gateway_calls').arguments = EmptyDict ]_vars

\* the name is not in the catalog and is not the name the heuristic rewrites
UnknownName(name) == name \notin SeqToSet(tools) /\ name # "search"

\* C6: a tool call with a name that is not in the catalog (and is not
\* "search") fails only that call: the error text with the available names
\* is appended as a tool message with the call's id and yielded as a
\* step_output, no error event is yielded, the gateway is not called, and the
\* turn goes on to the next tool call or model call.
C6_UnknownToolFailsOnlyCall ==
    [][ (pc = "tool" /\ UnknownName(tool_call.name)) =>
          /\ messages' = Append(messages,
                 Message("tool", ErrorMsg(NotFoundError(tools)), tool_call.id, << >>))
          /\ Len(Yielded) >= 2
          /\ Yielded[1] = Event("step_start", "tool", Str(tool_call.name))
          /\ Yielded[2] = Event("step_output", NoneVal, ErrorMsg(NotFoundError(tools)))
          /\ "error" \notin YieldedTypes
          /\ gateway_calls' = gateway_calls
          /\ pc' \in { "tool", "llm", "final" } ]_vars

\* C7: a call of "search" with a catalog that has "search_arxiv" but not
\* "search" yields step_update_name and is sent to the backend of
\* "search_arxiv"; with "search" in the catalog no step_update_name is
\* yielded and the call goes out as "search".
C7_SearchHeuristic ==
    [][ (pc = "tool" /\ tool_call.name = "search") =>
          /\ ("search" \notin SeqToSet(tools) /\ "search_arxiv" \in SeqToSet(tools)) =>
                /\ "step_update_name" \in YieldedTypes
                /\ pc' = "tool_call"
                /\ func_name' = "search_arxiv"
                /\ Len(gateway_calls') = Len(gateway_calls) + 1
                /\ Last(gateway_calls').name = "search_arxiv"
                /\ Last(gateway_calls').server = tool_to_server["search_arxiv"]
                /\ Last(gateway_calls').server \in sessions
          /\ "search" \in SeqToSet(tools) =>
                /\ "step_update_name" \notin YieldedTypes
                /\ pc' = "tool_call" => func_name' = "search" ]_vars

\* a model call of the turn failed and ended it
ModelFailure ==
    /\ pc \in { "end_llm_error", "end_final_error" }
    /\ Last(llm_calls).result = "failed"

\* C8: a failing model call ends the turn with an error event and leaves the
\* history as it was passed to that call, with everything this turn and the
\* turns before appended still there in order; nothing between turns removes
\* it, so the next turn starts from it.
C8_NoRollback ==
    /\ [](ModelFailure =>
            /\ Last(events).type = "error"
            /\ messages = Last(llm_calls).params.messages
            /\ IsPrefix(hist0, messages))
    /\ [](InTurn =>
            /\ IsPrefix(hist0, messages)
            /\ \A n \in 1..Len(llm_calls) : IsPrefix(hist0, llm_calls[n].params.messages))
    /\ [][ ~InTurn => IsPrefix(messages, messages') ]_vars

\* a turn has started from a history that ends with the tool result a
\* failed turn left, followed by the new user message
C8_Witness ==
    /\ pc = "list_tools"
    /\ Len(hist0) >= 5
    /\ hist0[Len(hist0) - 1].role = "tool"
    /\ hist0[Len(hist0) - 2].role = "assistant"
    /\ Last(hist0).role = "user"

\* C9: when listing the tools fails, the turn yields an error event and
\* nothing else: no step, no model call, no tool call, the history unchanged.
C9_ListFailureOnlyError ==
    pc = "end_list_error" =>
        /\ Len(events) = 1
        /\ events[1].type = "error"
        /\ llm_calls = << >>
        /\ gateway_calls = << >>
        /\ messages = hist0

C9_Witness ==
    /\ pc = "end_list_error"
    /\ HasEvent("error")
    /\ Last(messages).role = "user"

\* C10: a turn yields at most one error event, as its last event and without
\* a message event, and every abort path (tool listing, model call of the
\* loop, forced final call) yields exactly one.
C10_SingleTrailingError ==
    /\ CountType(events, "error") <= 1
    /\ HasEvent("error") => Last(events).type = "error" /\ ~HasEvent("message")
    /\ pc \in { "end_list_error", "end_llm_error", "end_final_error" } =>
          CountType(events, "error") = 1

----------------------------------------------------------------------------
(* The chat session and its memory: conversations that are started again   *)
(* or loaded from the store, and user messages that arrive while a turn is *)
(* suspended.  The handlers of interfaces/ui.py are coroutines of one      *)
(* event loop: while process_turn awaits the tool listing, a model call or *)
(* a tool call, another handler may run and call the engine.               *)

MaxSessionOps == 2      \* conversations started again or loaded, and user
                        \* messages added during a turn, in a behaviour

SessionOp ==
    /\ session_ops < MaxSessionOps
    /\ session_ops' = session_ops + 1

\* a get_messages ordered by the time of insertion, equal times newest first
get_messages_ByTime(rows, cid) ==
    LET found == SelectSeq(rows, LAMBDA r : r.conversation_id = cid)
        before(j) == { m \in 1..Len(found) :
                         \/ found[m].created_at < found[j].created_at
                         \/ found[m].created_at = found[j].created_at /\ m > j } IN
    [ n \in 1..Len(found) |->
        found[CHOOSE j \in 1..Len(found) : Cardinality(before(j)) = n - 1] ]

\* a get_messages with the newest row first
get_messages_Descending(rows, cid) ==
    LET found == SelectSeq(rows, LAMBDA r : r.conversation_id = cid) IN
    [ n \in 1..Len(found) |-> found[Len(found) + 1 - n] ]

\* MemoryStore.get_messages: the rows of the conversation, ORDER BY id ASC
get_messages(rows, cid) ==
    SelectSeq(rows, LAMBDA r : r.conversation_id = cid)

\* MemoryStore.get_summary: the summary of the conversation's row, or None
get_summary(summaries, cid) ==
    IF \E r \in summaries : r.conversation_id = cid
    THEN (CHOOSE r \in summaries : r.conversation_id = cid).summary
    ELSE NoneContent

\* the text _apply_summary wraps a summary in
SummaryNote(summary) ==
    [ text |-> "Conversation summary for continuity. ", detail |-> << summary.text >> ]

\* an _apply_summary that puts the summary before the system prompt
_apply_summary_First(msgs, summary) ==
    IF Truthy(summary)
    THEN << Message("system", SummaryNote(summary), NoId, << >>) >> \o msgs
    ELSE msgs

\* ChatEngine._apply_summary
_apply_summary(msgs, summary) ==
    IF Truthy(summary)
    THEN Append(msgs, Message("system", SummaryNote(summary), NoId, << >>))
    ELSE msgs

\* the history entries load_conversation makes of stored rows: role and
\* content only
Restored(rows) ==
    [ n \in 1..Len(rows) |-> Message(rows[n].role, rows[n].content, NoId, << >>) ]

\* ChatEngine.load_conversation
load_conversation(cid, persistent) ==
    LET reset == << Message("system", Str(SYSTEM_PROMPT), NoId, << >>) >>
        summary == get_summary(st_summary, cid) IN
    /\ conversation_id' = cid
    /\ persistent_enabled' = persistent
    /\ messages' = IF persistent
                   THEN _apply_summary(reset, summary)
                            \o Restored(get_messages(st_messages, cid))
                   ELSE reset

\* a handler starts a new conversation in the session, between turns
Restart(persistent) ==
    /\ Idle
    /\ persistent => Len(st_title) < MaxConversations
    /\ start_conversation(persistent)
    /\ SessionOp
    /\ UNCHANGED << pc, memory_dirty, settings_vars, st_summary, search_vars, gateway_op, list_call,
                    scheduler_vars,
                    gateway_vars,
                    st_messages, turn_locals, calls_granted, faults >>

\* a handler loads a conversation of the store, between turns or while a
\* turn is suspended
LoadConversation(cid, persistent) ==
    /\ Idle \/ InTurn
    /\ load_conversation(cid, persistent)
    /\ SessionOp
    /\ UNCHANGED << pc, memory_dirty, settings_vars, st_summary, search_vars, gateway_op, list_call,
                    scheduler_vars,
                    gateway_vars,
                    store_vars, turn_locals, calls_granted, faults >>

\* a second on_message runs while the turn of the first is suspended: its
\* add_user_message completes before the suspended turn resumes
UserMessageInTurn(content, outcome) ==
    /\ InTurn
    /\ CountRole(messages, "user") < MaxUserMessages
    /\ add_user_message(content, outcome)
    /\ SessionOp
    /\ UNCHANGED << pc, conversation_id, persistent_enabled, settings_vars,
                    st_summary, search_vars, gateway_op, list_call, scheduler_vars, gateway_vars,
                    turn_locals, calls_granted >>

InPersistent == persistent_enabled /\ conversation_id # NoId

MaxTasks == 2           \* scheduler tasks that exist at a time

\* a start_summary_scheduler that does not look at the handle
start_summary_scheduler_Unguarded(handle, alive) ==
    LET t == CHOOSE n \in 1..MaxTasks : n \notin alive IN
    [ summary_task |-> t, tasks |-> alive \cup { t } ]

\* ChatEngine.start_summary_scheduler, with the scheduler enabled in the
\* settings (the default): a task running _loop is created and its handle
\* kept, unless there is a handle
start_summary_scheduler(handle, alive) ==
    IF handle # NoTask
    THEN [ summary_task |-> handle, tasks |-> alive ]
    ELSE LET t == CHOOSE n \in 1..MaxTasks : n \notin alive IN
         [ summary_task |-> t, tasks |-> alive \cup { t } ]

\* a direct caller of persist_summary (on_chat_end): no scheduler task
Handler == NoTask

\* on_chat_start, or any handler, starts the scheduler
StartScheduler ==
    /\ pc # "initialized"
    /\ Cardinality(tasks) < MaxTasks
    /\ LET started == start_summary_scheduler(summary_task, tasks) IN
       /\ summary_task' = started.summary_task
       /\ tasks' = started.tasks
    /\ UNCHANGED << messages, conversation_id, persistent_enabled, memory_dirty,
                    settings_vars, gateway_vars, store_vars, st_summary, search_vars, gateway_op, list_call,
                    summarizing, transcript, session_ops, pc, turn_locals,
                    calls_granted, faults >>

\* a stop_summary_scheduler that drops the handle and lets the task run
stop_summary_scheduler_KeepsTask(handle, alive) ==
    [ summary_task |-> NoTask, tasks |-> alive ]

\* ChatEngine.stop_summary_scheduler: without a handle nothing is done, else
\* the task is cancelled and the handle dropped; cancelling a task that has
\* ended does nothing
stop_summary_scheduler(handle, alive) ==
    IF handle = NoTask
    THEN [ summary_task |-> handle, tasks |-> alive ]
    ELSE [ summary_task |-> NoTask, tasks |-> alive \ { handle } ]

\* on_chat_end, or any handler, stops the scheduler.  A cancelled task ends
\* where it waits: in its sleep, or in persist_summary at the model call,
\* which then saves nothing.
StopScheduler ==
    /\ pc # "initialized"
    /\ LET stopped == stop_summary_scheduler(summary_task, tasks) IN
       /\ summary_task' = stopped.summary_task
       /\ tasks' = stopped.tasks
       /\ summarizing' = { c \in summarizing : c = Handler \/ c \in stopped.tasks }
       /\ transcript' = { r \in transcript :
                             r.caller = Handler \/ r.caller \in stopped.tasks }
    /\ UNCHANGED << messages, conversation_id, persistent_enabled, memory_dirty,
                    settings_vars, gateway_vars, store_vars, st_summary, search_vars, gateway_op, list_call,
                    session_ops, pc, turn_locals, calls_granted, faults >>

\* a save_summary that inserts one more row with every call
save_summary_Insert(summaries, cid, summary) ==
    summaries \cup { [ conversation_id |-> cid, summary |-> summary ] }

\* MemoryStore.save_summary: INSERT ... ON CONFLICT(conversation_id) DO
\* UPDATE; a NULL conversation_id conflicts with no row
save_summary(summaries, cid, summary) ==
    { r \in summaries : r.conversation_id # cid \/ cid = NoId }
        \cup { [ conversation_id |-> cid, summary |-> summary ] }

\* persist_summary's local messages, reduced to what tells two transcripts
\* apart: the conversation read and the number of rows it had
Transcript(caller, cid, rows) ==
    [ caller |-> caller, conversation_id |-> cid, rows |-> Len(rows) ]

\* ChatEngine.persist_summary up to its await: with a conversation that is
\* persistent and has stored messages, and with summaries enabled in the
\* settings, the model is asked for a summary of the messages read, else
\* the call returns
persist_summary(caller) ==
    LET rows == get_messages(st_messages, conversation_id) IN
    IF InPersistent /\ memory_summary_enabled /\ rows # << >>
    THEN /\ calls_granted < MaxModelCalls
         /\ calls_granted' = calls_granted + 1
         /\ summarizing' = summarizing \cup { caller }
         /\ transcript' = transcript \cup
                            { Transcript(caller, conversation_id, rows) }
    ELSE UNCHANGED << calls_granted, summarizing, transcript >>

\* a handler calls persist_summary
PersistSummary ==
    /\ pc # "initialized"
    /\ Handler \notin summarizing
    /\ persist_summary(Handler)
    /\ UNCHANGED << messages, conversation_id, persistent_enabled, memory_dirty,
                    settings_vars, gateway_vars, store_vars, st_summary, search_vars, gateway_op, list_call,
                    summary_task, tasks, session_ops, pc, turn_locals, faults >>

\* _loop of the scheduler: the sleep of a task ends
Tick(t) ==
    /\ t \in tasks
    /\ t \notin summarizing
    /\ IF ~persistent_enabled \/ ~memory_dirty
       THEN UNCHANGED << calls_granted, summarizing, transcript >>
       ELSE persist_summary(t)
    /\ UNCHANGED << messages, conversation_id, persistent_enabled, memory_dirty,
                    settings_vars, gateway_vars, store_vars, st_summary, search_vars, gateway_op, list_call,
                    summary_task, tasks, session_ops, pc, turn_locals, faults >>

\* what the model returns as the summary: a text, a text with blanks around
\* it, blanks, the empty text, or no content
SummaryTexts == { "summary", " summary ", " ", "", NoneVal }

\* a strip that leaves the blanks
Strip_Identity(text) == text

\* str.strip of a summary text
Strip(text) ==
    CASE text = " summary " -> "summary"
      [] text = " "         -> ""
      [] OTHER              -> text

\* the summary the model makes of a transcript: its text is about the
\* messages of the prompt
SummaryOf(text, read) ==
    [ text |-> text, detail |-> << read.conversation_id, read.rows >> ]

\* persist_summary after its await: the summary the model returned is
\* stripped and saved for the conversation the engine is in now, and the
\* flag is cleared, unless the text is empty
SummaryReturn(caller, text) ==
    LET read == CHOOSE r \in transcript : r.caller = caller
        summary_text == Strip(IF text = NoneVal THEN "" ELSE text) IN
    /\ caller \in summarizing
    /\ summarizing' = summarizing \ { caller }
    /\ transcript' = transcript \ { read }
    /\ IF summary_text # ""
       THEN /\ st_summary' = save_summary(st_summary, conversation_id,
                                          SummaryOf(summary_text, read))
            /\ memory_dirty' = FALSE
       ELSE UNCHANGED << st_summary, memory_dirty >>
    /\ UNCHANGED << messages, conversation_id, persistent_enabled,
                    settings_vars, gateway_vars, store_vars, search_vars, gateway_op, list_call,
                    summary_task, tasks, session_ops, pc, turn_locals,
                    calls_granted, faults >>

\* the model call of persist_summary fails: the exception leaves
\* persist_summary, and ends _loop when a scheduler task made the call
SummaryFail(caller) ==
    /\ caller \in summarizing
    /\ MayFail(1)
    /\ faults' = faults + 1
    /\ summarizing' = summarizing \ { caller }
    /\ transcript' = { r \in transcript : r.caller # caller }
    /\ tasks' = tasks \ { caller }
    /\ UNCHANGED << messages, conversation_id, persistent_enabled, memory_dirty,
                    settings_vars, gateway_vars, store_vars, st_summary, search_vars, gateway_op, list_call,
                    summary_task, session_ops, pc, turn_locals, calls_granted >>

\* on_chat_end after its stop_summary_scheduler and persist_summary, and the
\* next on_chat_start up to its start_conversation: the engine is cleaned
\* up and the store closed, then a new engine is constructed over a store
\* opened on the same file, and initialized.  Every write was committed by
\* the operation that made it.
Reopen ==
    /\ Idle
    /\ tasks = {} /\ summary_task = NoTask /\ summarizing = {}
    /\ SessionOp
    /\ pc' = "initialized"
    /\ messages' = << Message("system", Str(SYSTEM_PROMPT), NoId, << >>) >>
    /\ conversation_id' = NoId
    /\ persistent_enabled' = FALSE
    /\ memory_dirty' = FALSE
    /\ tool_to_server' = NoRoute
    /\ sampling_usage_events' = << >>
    /\ UNCHANGED << sessions, exit_stack, settings_vars, store_vars, st_summary,
                    search_vars, gateway_op, list_call, scheduler_vars, turn_locals, calls_granted,
                    faults >>

Scheduler ==
    \/ StartScheduler
    \/ StopScheduler
    \/ PersistSummary
    \/ \E t \in tasks : Tick(t)
    \/ \E caller \in summarizing, t \in SummaryTexts : SummaryReturn(caller, t)
    \/ \E caller \in summarizing : SummaryFail(caller)

\* on_chat_start has initialized the engine with every server connected
SessionInit ==
    /\ messages = << Message("system", Str(SYSTEM_PROMPT), NoId, << >>) >>
    /\ conversation_id = NoId
    /\ persistent_enabled = FALSE
    /\ memory_dirty = FALSE
    /\ token_usage_enabled = TRUE
    /\ server_usage = FALSE
    /\ memory_summary_enabled = TRUE
    /\ sessions = ServerSet
    /\ tool_to_server = NoRoute
    /\ sampling_usage_events = << >>
    /\ exit_stack = connect(Disconnected, AllConnect, 1).exit_stack
    /\ gateway_op = NoOp
    /\ list_call = NoListCall
    /\ st_title = << >>
    /\ st_messages = << >>
    /\ st_summary = {}
    /\ st_deleted = {}
    /\ st_now = 0
    /\ listed = NoListing
    /\ summary_task = NoTask
    /\ tasks = {}
    /\ summarizing = {}
    /\ transcript = {}
    /\ session_ops = 0
    /\ pc = "initialized"
    /\ max_turns = 0
    /\ i = 0
    /\ tools = << >>
    /\ msg = NoMsg
    /\ k = 0
    /\ func_name = NoneVal
    /\ events = << >>
    /\ llm_calls = << >>
    /\ gateway_calls = << >>
    /\ hist0 = << >>
    /\ calls_granted = 0
    /\ faults = 0

\* what the user writes in a session: a question, nothing, or two lines
\* with a long first one
SessionContents == { "question", "", LongText }

\* the turns of a session: both servers list one tool each, the model asks
\* for one tool call that parses, or answers
SessionTurn ==
    \/ \E answers \in AnswerSets :
          /\ \A s \in ServerSet : answers[s].ok /\ Len(answers[s].tools) = 1
          /\ ListToolsReturn(answers)
    \/ LLMFail
    \/ \E c \in ReplyContents, o \in StoreOutcomes :
          LLMAnswer(c, server_usage, o)
    \/ LLMToolCalls(NoneContent, << Request("calc", "json_object") >>, server_usage)
    \/ ToolDispatch
    \/ \E t \in ToolOutputs : ToolReturn(t)
    \/ ToolRaise
    \/ FinalFail
    \/ \E r \in FinalReplies, o \in StoreOutcomes :
          FinalReturn(r.content, r.requests, server_usage, o)

SessionNext ==
    \/ \E p \in BOOLEAN : StartConversation(p)
    \/ \E p \in BOOLEAN : Restart(p)
    \/ \E cid \in 1..Len(st_title), p \in BOOLEAN : LoadConversation(cid, p)
    \/ Reopen
    \/ \E c \in SessionContents, o \in StoreOutcomes : AddUserMessage(Str(c), o)
    \/ \E c \in SessionContents, o \in StoreOutcomes : UserMessageInTurn(Str(c), o)
    \/ ProcessTurn(MaxBudget - 1)
    \/ SessionTurn
    \/ Close
    \/ Scheduler

SessionSpec == SessionInit /\ [][SessionNext]_vars

\* the assistant message that requested the tool call a tool message answers:
\* the nearest assistant message before it
Requester(msgs, n) ==
    { a \in 1..(n - 1) :
        /\ msgs[a].role = "assistant"
        /\ \A j \in (a + 1)..(n - 1) : msgs[j].role = "tool" }

\* C11: every tool message of the history carries the id of a tool call of
\* the assistant message before it, with only tool messages between the two.
C11_ToolMessagesFollowRequest ==
    \A n \in 1..Len(messages) :
        messages[n].role = "tool" =>
            \E a \in Requester(messages, n) :
                \E c \in 1..Len(messages[a].tool_calls) :
                    messages[a].tool_calls[c].id = messages[n].tool_call_id

\* the step appends one message of the role to the history
Appends(role) ==
    /\ Len(messages') = Len(messages) + 1
    /\ SubSeq(messages', 1, Len(messages)) = messages
    /\ Last(messages').role = role

\* the step is an add_user_message that returns
UserMessageAdded ==
    \E c \in SessionContents :
        AddUserMessage(Str(c), "ok") \/ UserMessageInTurn(Str(c), "ok")

\* a turn concludes with the assistant's reply: the reply without tool
\* calls of the loop, or the forced final reply
AnswerConcludes ==
    /\ pc \in { "llm", "final" }
    /\ pc' \in { "end_answer", "end_final" }
    /\ Appends("assistant")

\* the store got the message the step appended as its newest row, and the
\* flag is set
Written(role) ==
    /\ st_messages' = Append(st_messages, [ conversation_id |-> conversation_id,
                                            role |-> role,
                                            content |-> Last(messages').content,
                                            created_at |-> st_now ])
    /\ memory_dirty'

\* C12 as stated: in a persistent conversation every user message is in the
\* store when add_user_message returns, the reply a turn concludes with is in
\* the store when the turn ends, and each of these writes sets the dirty
\* flag.
C12_EveryMessageWritten ==
    [][ InPersistent =>
          /\ UserMessageAdded => Written("user")
          /\ AnswerConcludes => Written("assistant") ]_vars

\* C12, amended: the same for messages with content; a user message without
\* text and a reply without content are appended to the history and leave
\* the store and the flag as they are.
C12_MessageWithContentWritten ==
    [][ InPersistent =>
          /\ UserMessageAdded =>
                IF Truthy(Last(messages').content) THEN Written("user")
                ELSE UNCHANGED << st_messages, memory_dirty >>
          /\ AnswerConcludes =>
                IF Truthy(Last(messages').content) THEN Written("assistant")
                ELSE UNCHANGED << st_messages, memory_dirty >> ]_vars

\* a persistent conversation whose store holds the user message and the
\* forced final reply of the turn that just ended
C12_Witness ==
    /\ pc = "end_final"
    /\ InPersistent
    /\ memory_dirty
    /\ Len(st_messages) >= 2
    /\ st_messages[Len(st_messages) - 1].role = "user"
    /\ Last(st_messages) = [ conversation_id |-> conversation_id,
                             role |-> "assistant",
                             content |-> Last(messages).content,
                             created_at |-> st_now ]

\* C13: the title of a conversation has at most 60 characters and is set
\* once; it is set by the first user message of the conversation, from that
\* message, and no later add_user_message sets or changes it.
C13_TitleFromFirstMessage ==
    [][ \A cid \in 1..Len(st_title) :
          /\ Len(st_title'[cid]) <= TitleLimit
          /\ st_title[cid] # << >> => st_title'[cid] = st_title[cid]
          /\ st_title'[cid] # st_title[cid] =>
                /\ CountRole(messages, "user") = 0
                /\ Appends("user")
                /\ st_title'[cid] = TitleOf(Last(messages').content.text) ]_vars

\* a persist_summary that was called in a persistent conversation gets its
\* summary from the model after the engine has left that conversation
LateSummary == \E caller \in summarizing, t \in SummaryTexts : SummaryReturn(caller, t)

C20_OneSchedulerTask ==
    [][ /\ Cardinality(tasks') <= 1
        /\ StartScheduler /\ summary_task # NoTask =>
              UNCHANGED << summary_task, tasks >> ]_vars

\* the scheduler runs beside a turn: one task exists, and a further start
\* can be made
C20_Witness ==
    /\ summary_task # NoTask
    /\ tasks = { summary_task }
    /\ ENABLED StartScheduler
    /\ InTurn

\* the rows of the messages table that belong to the conversation
RowsOf(cid) == { n \in 1..Len(st_messages) : st_messages[n].conversation_id = cid }

\* the summaries the store holds for the conversation
SummariesOf(cid) ==
    { r.summary : r \in { q \in st_summary : q.conversation_id = cid } }

\* C18: loading a conversation by id, also after the store was closed and
\* opened again, gives the history the system prompt, then the stored
\* summary of the conversation when there is one, then the stored messages
\* of the conversation, each with its role and content, in the order they
\* were inserted.
C18_LoadRestoresStored ==
    [][ \A cid \in 1..Len(st_title) :
          LoadConversation(cid, TRUE) =>
            LET leading == 1 + Cardinality(SummariesOf(cid)) IN
            /\ messages'[1] = Message("system", Str(SYSTEM_PROMPT), NoId, << >>)
            /\ \A text \in SummariesOf(cid) :
                  /\ messages'[2].role = "system"
                  /\ messages'[2].content.detail = << text.text >>
            /\ Len(messages') = leading + Cardinality(RowsOf(cid))
            /\ \A n \in RowsOf(cid) :
                  LET at == leading + Cardinality({ m \in RowsOf(cid) : m <= n }) IN
                  /\ messages'[at].role = st_messages[n].role
                  /\ messages'[at].content = st_messages[n].content ]_vars

\* a conversation with a summary, a user message and an answer was loaded
\* by an engine constructed after they were stored: it has listed no tools
C18_Witness ==
    /\ tool_to_server = NoRoute
    /\ InPersistent
    /\ Len(messages) = 4
    /\ messages[2].content = SummaryNote(Str("summary"))
    /\ messages[3].role = "user"
    /\ messages[4].role = "assistant"
    /\ memory_dirty = FALSE

----------------------------------------------------------------------------
(* src/core/memory_store.py: the operations of MemoryStore, called in any  *)
(* order on one store                                                      *)

MaxRows == 3            \* rows the messages table gets in a behaviour
MaxTime == 1            \* the clock of the store reads 0..MaxTime
DefaultLimit == 50      \* list_conversations(limit=50)

\* the engine does not take part
engine_vars == << messages, conversation_id, persistent_enabled, memory_dirty,
                  settings_vars, gateway_vars, gateway_op, list_call, scheduler_vars,
                  session_ops, pc,
                  turn_locals, calls_granted, faults >>

\* the ids of the rows of the conversations table
Conversations(titles, deleted) == { c \in 1..Len(titles) : c \notin deleted }

\* MemoryStore.get_title: the title of the row, or None without a row
get_title(titles, deleted, cid) ==
    IF cid \in Conversations(titles, deleted)
    THEN [ found |-> TRUE, title |-> titles[cid] ]
    ELSE [ found |-> FALSE, title |-> << >> ]

\* a delete_conversation that leaves the summary
delete_conversation_KeepsSummary(rows, summaries, deleted, cid) ==
    [ rows |-> SelectSeq(rows, LAMBDA r : r.conversation_id # cid),
      summaries |-> summaries,
      deleted |-> deleted \cup { cid } ]

\* MemoryStore.delete_conversation: three DELETEs and a commit
delete_conversation(rows, summaries, deleted, cid) ==
    [ rows |-> SelectSeq(rows, LAMBDA r : r.conversation_id # cid),
      summaries |-> { r \in summaries : r.conversation_id # cid },
      deleted |-> deleted \cup { cid } ]

\* hay LIKE '%needle%', for a needle without wildcards
Like(hay, needle) ==
    \E at \in 0..(Len(hay) - Len(needle)) :
        SubSeq(hay, at + 1, at + Len(needle)) = needle

\* messages_fts MATCH 'needle*' (SQLite FTS5, default tokenizer): a token of
\* the text, a run of letters and digits, begins with the needle
Match(text, needle) ==
    \E first \in 1..Len(text), last \in 1..Len(text) :
        /\ first <= last
        /\ \A n \in first..last : text[n] # " "
        /\ first = 1 \/ text[first - 1] = " "
        /\ last = Len(text) \/ text[last + 1] = " "
        /\ IsPrefix(needle, SubSeq(text, first, last))

\* a list_conversations that does not search the titles
list_conversations_BodyOnly(titles, deleted, rows, search, fts) ==
    LET body(c) == { Chars(rows[n].content.text) :
                       n \in { m \in 1..Len(rows) : rows[m].conversation_id = c } } IN
    IF search = NoneVal THEN Conversations(titles, deleted)
    ELSE { c \in Conversations(titles, deleted) :
             \E text \in body(c) :
                IF fts THEN Match(text, Chars(search)) ELSE Like(text, Chars(search)) }

\* MemoryStore.list_conversations before its LIMIT: every conversation
\* without a search; with a search the full-text query, and the LIKE query
\* when that one raises OperationalError because the build has no FTS5
list_conversations(titles, deleted, rows, search, fts) ==
    LET body(c) == { Chars(rows[n].content.text) :
                       n \in { m \in 1..Len(rows) : rows[m].conversation_id = c } } IN
    IF search = NoneVal THEN Conversations(titles, deleted)
    ELSE IF fts
    THEN { c \in Conversations(titles, deleted) :
             \/ Like(titles[c], Chars(search))
             \/ \E text \in body(c) : Match(text, Chars(search)) }
    ELSE { c \in Conversations(titles, deleted) :
             \/ Like(titles[c], Chars(search))
             \/ \E text \in body(c) : Like(text, Chars(search)) }

\* ORDER BY updated_at DESC LIMIT ?: all the rows when they are within the
\* limit, else as many as the limit; which ones is decided by updated_at,
\* that is by the order of the writes, and is left open here
Limited(found, limit) ==
    IF Cardinality(found) <= limit THEN { found }
    ELSE { part \in SUBSET found : Cardinality(part) = limit }

StoreInit ==
    /\ Init
    /\ listed = NoListing

\* a write makes the last listing stale
Write == listed' = NoListing /\ UNCHANGED engine_vars

\* MemoryStore.create_conversation, as the engine calls it: no title
CreateConversation ==
    /\ Len(st_title) < MaxConversations
    /\ st_title' = Append(st_title, << >>)
    /\ Write
    /\ UNCHANGED << st_messages, st_summary, st_deleted, st_now >>

\* MemoryStore.update_title
UpdateTitle(cid, title) ==
    /\ st_title' = IF cid \in st_deleted THEN st_title
                   ELSE [ st_title EXCEPT ![cid] = title ]
    /\ Write
    /\ UNCHANGED << st_messages, st_summary, st_deleted, st_now >>

\* MemoryStore.add_message
AddMessage(cid, role, content) ==
    /\ Len(st_messages) < MaxRows
    /\ st_messages' = add_message(st_messages, cid, role, content, "ok")
    /\ Write
    /\ UNCHANGED << st_title, st_summary, st_deleted, st_now >>

\* MemoryStore.save_summary
SaveSummary(cid, summary) ==
    /\ st_summary' = save_summary(st_summary, cid, summary)
    /\ Write
    /\ UNCHANGED << st_title, st_messages, st_deleted, st_now >>

\* MemoryStore.delete_conversation
DeleteConversation(cid) ==
    /\ LET after == delete_conversation(st_messages, st_summary, st_deleted, cid) IN
       /\ st_messages' = after.rows
       /\ st_summary' = after.summaries
       /\ st_deleted' = after.deleted
    /\ Write
    /\ UNCHANGED << st_title, st_now >>

\* time passes between two calls
ClockTick ==
    /\ st_now < MaxTime
    /\ st_now' = st_now + 1
    /\ UNCHANGED << engine_vars, store_vars, st_summary, st_deleted, listed >>

\* MemoryStore.list_conversations
ListConversations(search, fts, limit) ==
    /\ \E part \in Limited(list_conversations(st_title, st_deleted, st_messages,
                                               search, fts), limit) :
          listed' = [ search |-> search, fts |-> fts, limit |-> limit, rows |-> part ]
    /\ UNCHANGED << engine_vars, store_vars, st_summary, st_deleted, st_now >>

\* the store of messages and summaries
StoreNext ==
    \/ CreateConversation
    \/ \E cid \in 1..Len(st_title) :
          \/ AddMessage(cid, "user", Str("my question"))
          \/ AddMessage(cid, "assistant", Str("answer"))
    \/ \E cid \in 1..Len(st_title), text \in { "summary", "newer summary" } :
          SaveSummary(cid, Str(text))
    \/ \E cid \in 1..Len(st_title) : DeleteConversation(cid)
    \/ ClockTick

StoreSpec == StoreInit /\ [][StoreNext]_vars

\* the store searched for conversations
SearchNext ==
    \/ CreateConversation
    \/ \E cid \in 1..Len(st_title) : UpdateTitle(cid, Chars("question"))
    \/ \E cid \in 1..Len(st_title) :
          \/ AddMessage(cid, "user", Str("my question"))
          \/ AddMessage(cid, "assistant", Str("answer"))
    \/ \E cid \in 1..Len(st_title) : DeleteConversation(cid)
    \/ \E search \in { NoneVal, "quest", "tion" }, fts \in BOOLEAN,
          limit \in { 1, DefaultLimit } : ListConversations(search, fts, limit)

SearchSpec == StoreInit /\ [][SearchNext]_vars

----------------------------------------------------------------------------
(* Properties of the store *)

\* C15: an add_message appends its row to what get_messages returns for the
\* conversation and changes nothing for any other conversation, whatever
\* the times of insertion are: after N calls get_messages returns the N
\* rows in the order of the calls.
C15_MessagesInInsertionOrder ==
    [][ Len(st_messages') > Len(st_messages) =>
          \A cid \in 1..Len(st_title) :
              get_messages(st_messages', cid) =
                  IF cid = Last(st_messages').conversation_id
                  THEN Append(get_messages(st_messages, cid), Last(st_messages'))
                  ELSE get_messages(st_messages, cid) ]_vars

\* two rows of a conversation inserted at the same time, with a row of
\* another conversation inserted between them
C15_Witness ==
    /\ Len(st_messages) = MaxRows
    /\ st_messages[1].conversation_id = st_messages[MaxRows].conversation_id
    /\ st_messages[1].created_at = st_messages[MaxRows].created_at
    /\ st_messages[2].conversation_id # st_messages[1].conversation_id
    /\ get_messages(st_messages, st_messages[1].conversation_id)
           = << st_messages[1], st_messages[MaxRows] >>

SummaryRows(summaries, cid) == { r \in summaries : r.conversation_id = cid }

\* C16: a conversation never has more than one summary row; after a
\* save_summary get_summary returns the text just saved, and the summaries
\* of the other conversations are as before.
C16_OneSummaryLastSaved ==
    [][ \A cid \in 1..Len(st_title) :
          /\ Cardinality(SummaryRows(st_summary', cid)) <= 1
          /\ \A text \in { "summary", "newer summary" } :
                SaveSummary(cid, Str(text)) =>
                  /\ get_summary(st_summary', cid) = Str(text)
                  /\ \A other \in 1..Len(st_title) \ { cid } :
                        SummaryRows(st_summary', other)
                            = SummaryRows(st_summary, other) ]_vars

\* a summary was replaced by a newer one beside the summary of another
\* conversation
C16_Witness ==
    \E cid, other \in 1..Len(st_title) :
        /\ get_summary(st_summary, cid) = Str("newer summary")
        /\ get_summary(st_summary, other) = Str("summary")
        /\ Cardinality(st_summary) = 2

\* C17: after delete_conversation(id) no row of the three tables refers to
\* the id: get_messages is empty, get_summary and get_title are None and
\* list_conversations does not hold the id; the rows of the other
\* conversations are as before.
C17_DeleteCascades ==
    [][ \A cid \in 1..Len(st_title) :
          DeleteConversation(cid) =>
            /\ \A n \in 1..Len(st_messages') : st_messages'[n].conversation_id # cid
            /\ SummaryRows(st_summary', cid) = {}
            /\ get_messages(st_messages', cid) = << >>
            /\ get_summary(st_summary', cid) = NoneContent
            /\ ~get_title(st_title', st_deleted', cid).found
            /\ cid \notin list_conversations(st_title', st_deleted', st_messages',
                                              NoneVal, TRUE)
            /\ \A other \in 1..Len(st_title) \ { cid } :
                  /\ get_messages(st_messages', other) = get_messages(st_messages, other)
                  /\ SummaryRows(st_summary', other) = SummaryRows(st_summary, other)
                  /\ get_title(st_title', st_deleted', other)
                        = get_title(st_title, st_deleted, other) ]_vars

\* a conversation was deleted, and another one has its messages and its
\* summary
C17_Witness ==
    \E cid \in st_deleted, other \in Conversations(st_title, st_deleted) :
        /\ Len(get_messages(st_messages, other)) = MaxRows - 1
        /\ get_summary(st_summary, other) # NoneContent
        /\ Len(st_messages) = MaxRows - 1

\* the conversations with a title that contains the text
Titled(search) ==
    { c \in Conversations(st_title, st_deleted) : Like(st_title[c], Chars(search)) }

\* the conversations with a message that contains the text
Containing(search) ==
    { c \in Conversations(st_title, st_deleted) :
        \E n \in 1..Len(st_messages) :
            /\ st_messages[n].conversation_id = c
            /\ Like(Chars(st_messages[n].content.text), Chars(search)) }

\* the conversations with a message in which a word begins with the text
WordBeginning(search) ==
    { c \in Conversations(st_title, st_deleted) :
        \E n \in 1..Len(st_messages) :
            /\ st_messages[n].conversation_id = c
            /\ Match(Chars(st_messages[n].content.text), Chars(search)) }

\* what list_conversations returned is found cut to the limit
Returned(found) ==
    /\ listed.rows \subseteq found
    /\ Cardinality(listed.rows) =
          IF Cardinality(found) <= listed.limit THEN Cardinality(found)
          ELSE listed.limit

----------------------------------------------------------------------------
(* The summary scheduler                                                   *)
(*                                                                         *)
(* A chat session from the end of on_chat_start: the engine is initialized, *)
(* a conversation is started and the scheduler runs.  Messages are added   *)
(* and turns run while the scheduler's task sleeps, ticks and summarizes;  *)
(* handlers stop and start the scheduler and call persist_summary.         *)

\* on_chat_start has run: initialize, start_conversation and
\* start_summary_scheduler.  The summary setting is read from the environment.
SchedulerInit ==
    /\ messages = << Message("system", Str(SYSTEM_PROMPT), NoId, << >>) >>
    /\ \E persistent \in BOOLEAN :
          /\ persistent_enabled = persistent
          /\ conversation_id = IF persistent THEN 1 ELSE NoId
          /\ st_title = IF persistent THEN << << >> >> ELSE << >>
    /\ memory_dirty = FALSE
    /\ token_usage_enabled = TRUE
    /\ server_usage = FALSE
    /\ memory_summary_enabled \in BOOLEAN
    /\ sessions = ServerSet
    /\ tool_to_server = NoRoute
    /\ sampling_usage_events = << >>
    /\ exit_stack = connect(Disconnected, AllConnect, 1).exit_stack
    /\ gateway_op = NoOp
    /\ list_call = NoListCall
    /\ st_messages = << >>
    /\ st_summary = {}
    /\ st_deleted = {}
    /\ st_now = 0
    /\ listed = NoListing
    /\ summary_task = 1
    /\ tasks = { 1 }
    /\ summarizing = {}
    /\ transcript = {}
    /\ session_ops = 0
    /\ pc = "idle"
    /\ max_turns = 0
    /\ i = 0
    /\ tools = << >>
    /\ msg = NoMsg
    /\ k = 0
    /\ func_name = NoneVal
    /\ events = << >>
    /\ llm_calls = << >>
    /\ gateway_calls = << >>
    /\ hist0 = << >>
    /\ calls_granted = 0
    /\ faults = 0

SchedulerNext ==
    \/ \E o \in StoreOutcomes : AddUserMessage(Str("question"), o)
    \/ \E b \in 0..(MaxBudget - 1) : ProcessTurn(b)
    \/ SessionTurn
    \/ Close
    \/ Scheduler

SchedulerSpec == SchedulerInit /\ [][SchedulerNext]_vars

\* the sleep of the scheduler's task ends, and the model answers the summary
\* call or the call fails
SchedulerFairSpec ==
    /\ SchedulerSpec
    /\ WF_vars(\E t \in 1..MaxTasks : Tick(t))
    /\ WF_vars(\E caller \in { Handler } \cup (1..MaxTasks), t \in SummaryTexts :
                  SummaryReturn(caller, t))

\* the scheduler's task exists
Running == summary_task # NoTask /\ summary_task \in tasks

\* a scheduler task starts to summarize
TickSummarizes == \E t \in 1..MaxTasks : t \notin summarizing /\ t \in summarizing'

\* C21: stop_summary_scheduler cancels the task, asleep or summarizing, and
\* clears the handle; without a handle it changes nothing.  While there is
\* no handle there is no task, no task summarizes or saves a summary, and a
\* task exists again only by start_summary_scheduler.
C21_StopCancelsAndClears ==
    /\ [](summary_task = NoTask =>
            /\ tasks = {}
            /\ summarizing \subseteq { Handler }
            /\ \A r \in transcript : r.caller = Handler)
    /\ [][ /\ StopScheduler =>
                /\ summary_task' = NoTask
                /\ summary_task \notin tasks' \cup (summarizing' \ { Handler })
                /\ summary_task = NoTask => UNCHANGED vars
           /\ TickSummarizes => summary_task # NoTask
           /\ (tasks = {} /\ tasks' # {}) => StartScheduler ]_vars

\* the scheduler was stopped, as on_chat_start had started it, after the
\* first message was stored and before its turn: a summary call was made
\* that neither failed nor saved a summary
C21_Witness ==
    /\ summary_task = NoTask
    /\ tasks = {}
    /\ InPersistent
    /\ pc = "user_added"
    /\ CountRole(messages, "user") = 1
    /\ memory_dirty
    /\ calls_granted = 1
    /\ transcript = {}
    /\ st_summary = {}
    /\ faults = 0

\* the summary texts that are empty when stripped
BlankTexts == { " ", "", NoneVal }

\* a summarization that has ended left the summary it made in the store,
\* under the conversation the engine is in
SummaryStored ==
    \E read \in transcript \ transcript', r \in st_summary' :
        /\ r.conversation_id = conversation_id
        /\ r.summary.text # ""
        /\ r.summary.detail = << read.conversation_id, read.rows >>

\* C22: a tick starts a summarization only in a persistent conversation
\* with the dirty flag set.  The flag is cleared only by a step that stores
\* a summary; it keeps its value when persist_summary returns early (no
\* stored messages, summaries disabled), when the model returns a text that
\* is empty or blank, and when the model call fails, and these store nothing.
C22_TickAndDirtyFlag ==
    [][ /\ TickSummarizes => (InPersistent /\ memory_dirty /\ memory_summary_enabled)
        /\ (memory_dirty /\ ~memory_dirty') => SummaryStored
        /\ ( \/ PersistSummary
             \/ \E t \in 1..MaxTasks : Tick(t)
             \/ \E caller \in summarizing, t \in BlankTexts : SummaryReturn(caller, t)
             \/ \E caller \in summarizing : SummaryFail(caller) )
           => UNCHANGED << memory_dirty, st_summary >> ]_vars

\* the model call of a tick's summarization has failed: the task has ended
\* with its handle kept, and the flag is set
C22_Witness ==
    /\ summary_task # NoTask
    /\ summary_task \notin tasks
    /\ faults = 1
    /\ memory_dirty
    /\ InPersistent
    /\ st_summary = {}

\* the stored summary of the conversation was made of all its stored rows
Reflected ==
    LET summary == get_summary(st_summary, conversation_id)
        rows == get_messages(st_messages, conversation_id) IN
    /\ Truthy(summary)
    /\ summary.detail = << conversation_id, Len(rows) >>

\* the model calls the behaviour is allowed are used up
Exhausted == calls_granted >= MaxModelCalls

\* C23: in a persistent conversation with stored messages and summaries
\* enabled, as long as the scheduler runs and model calls are left, the
\* stored summary eventually reflects every stored message.
C23_EventualFreshness ==
    (InPersistent /\ memory_summary_enabled
        /\ get_messages(st_messages, conversation_id) # << >>)
        ~> (Reflected \/ ~Running \/ Exhausted)

----------------------------------------------------------------------------
(* The tool gateway                                                        *)
(*                                                                         *)
(* MCPClientWrapper on its own: connect with every outcome for every       *)
(* server, then list_tools, call_tool, read_resource, sampling requests of *)
(* the backends, and cleanup, in any order.                                *)

\* the session of the server is open: its context is on the exit stack
Live(s) == s \in sessions /\ Context(s, "session") \in SeqToSet(exit_stack)

\* MCPClientWrapper.connect, called by ChatEngine.initialize
Connect(outcomes) ==
    /\ pc = "new"
    /\ pc' = "initialized"
    /\ LET done == connect([ sessions |-> sessions, exit_stack |-> exit_stack ],
                           outcomes, 1) IN
       /\ sessions' = done.sessions
       /\ exit_stack' = done.exit_stack
    /\ gateway_op' = [ NoOp EXCEPT !.op = "connect" ]
    /\ UNCHANGED << list_call, messages, conversation_id, persistent_enabled, memory_dirty,
                    settings_vars, tool_to_server, sampling_usage_events,
                    store_vars, st_summary, search_vars, scheduler_vars,
                    session_ops, turn_locals, calls_granted, faults >>

\* what the sessions answer to list_tools in the gateway's own calls: both
\* servers may list a tool named search_arxiv
GatewayBackendAnswers ==
    [ arxiv |-> { ListAnswer(TRUE, << "search_arxiv" >>),
                  ListAnswer(FALSE, << >>) },
      util  |-> { ListAnswer(TRUE, << "calc" >>),
                  ListAnswer(TRUE, << "calc", "search_arxiv" >>),
                  ListAnswer(FALSE, << >>) } ]

\* one answer for each session; a session that is closed raises
GatewayAnswers ==
    { answers \in [ ServerSet -> UNION { GatewayBackendAnswers[s] : s \in ServerSet } ] :
        \A s \in ServerSet :
            IF Live(s) THEN answers[s] \in GatewayBackendAnswers[s]
            ELSE answers[s] = NotAsked }

\* MCPClientWrapper.list_tools
ListTools(answers) ==
    /\ pc = "initialized"
    /\ LET r == Listed(answers) IN
       /\ tool_to_server' = r.tool_to_server
       /\ gateway_op' = [ NoOp EXCEPT !.op = "list_tools",
                                      !.queried = SessionOrder(sessions, 1),
                                      !.tools = r.tools ]
    /\ UNCHANGED << list_call, messages, conversation_id, persistent_enabled, memory_dirty,
                    settings_vars, sessions, sampling_usage_events, exit_stack,
                    store_vars, st_summary, search_vars, scheduler_vars,
                    session_ops, pc, turn_locals, calls_granted, faults >>

\* MCPClientWrapper.call_tool, to the await of the session's call_tool
CallTool(name) ==
    /\ pc = "initialized"
    /\ LET routed == call_tool(name, tool_to_server, sessions) IN
       gateway_op' = [ NoOp EXCEPT !.op = "call_tool",
                                   !.raised = routed.raised,
                                   !.text = Str(name),
                                   !.server = routed.server,
                                   !.queried = IF routed.raised THEN << >>
                                               ELSE << routed.server >> ]
    /\ UNCHANGED << list_call, messages, conversation_id, persistent_enabled, memory_dirty,
                    settings_vars, gateway_vars, store_vars, st_summary,
                    search_vars, scheduler_vars, session_ops, pc, turn_locals,
                    calls_granted, faults >>

\* MCPClientWrapper.read_resource; only an open session returns a resource
ReadResource(readable) ==
    /\ pc = "initialized"
    /\ \A s \in readable : Live(s)
    /\ LET read == read_resource(SessionOrder(sessions, 1), readable, 1) IN
       gateway_op' = [ NoOp EXCEPT !.op = "read_resource",
                                   !.raised = read.raised,
                                   !.server = read.server,
                                   !.queried = read.queried ]
    /\ UNCHANGED << list_call, messages, conversation_id, persistent_enabled, memory_dirty,
                    settings_vars, gateway_vars, store_vars, st_summary,
                    search_vars, scheduler_vars, session_ops, pc, turn_locals,
                    calls_granted, faults >>

\* MCPClientWrapper.cleanup, called by ChatEngine.cleanup
Cleanup(outcome) ==
    /\ pc = "initialized"
    /\ outcome # "ok" => exit_stack # << >>
    /\ LET done == cleanup(sessions, exit_stack, outcome) IN
       /\ sessions' = done.sessions
       /\ exit_stack' = done.exit_stack
       /\ gateway_op' = [ NoOp EXCEPT !.op = "cleanup", !.raised = done.raised ]
    /\ UNCHANGED << list_call, messages, conversation_id, persistent_enabled, memory_dirty,
                    settings_vars, tool_to_server, sampling_usage_events,
                    store_vars, st_summary, search_vars, scheduler_vars,
                    session_ops, pc, turn_locals, calls_granted, faults >>

MaxSamplingEvents == 2  \* usage events of sampling requests in the buffer

\* a backend with an open session sends a sampling request, and
\* handle_sampling answers it
HandleSampling(request, reply) ==
    /\ pc = "initialized"
    /\ \E s \in ServerSet : Live(s)
    /\ Len(sampling_usage_events) < MaxSamplingEvents
    /\ reply = "count_fails" => token_usage_enabled
    /\ LET r == handle_sampling(request, reply, token_usage_enabled,
                                sampling_usage_events) IN
       /\ sampling_usage_events' = r.buffer
       /\ gateway_op' = [ NoOp EXCEPT !.op = "handle_sampling",
                                      !.raised = r.raised,
                                      !.text = r.text,
                                      !.stopReason = r.stopReason ]
    /\ UNCHANGED << list_call, messages, conversation_id, persistent_enabled, memory_dirty,
                    settings_vars, sessions, tool_to_server, exit_stack,
                    store_vars, st_summary, search_vars, scheduler_vars,
                    session_ops, pc, turn_locals, calls_granted, faults >>

\* process_turn takes the buffered usage events after a tool call
PopSamplingUsageEvents ==
    /\ pc = "initialized"
    /\ sampling_usage_events # << >>
    /\ sampling_usage_events' = pop_sampling_usage_events(sampling_usage_events).buffer
    /\ UNCHANGED << messages, conversation_id, persistent_enabled, memory_dirty,
                    settings_vars, sessions, tool_to_server, exit_stack, gateway_op, list_call,
                    store_vars, st_summary, search_vars, scheduler_vars,
                    session_ops, pc, turn_locals, calls_granted, faults >>

GatewayNext ==
    \/ \E outcomes \in [ ServerSet -> ConnectOutcomes ] : Connect(outcomes)
    \/ \E answers \in GatewayAnswers : ListTools(answers)
    \/ \E name \in RequestNames : CallTool(name)
    \/ \E readable \in SUBSET ServerSet : ReadResource(readable)
    \/ \E request \in SamplingRequests, reply \in SamplingReplies :
          HandleSampling(request, reply)
    \/ PopSamplingUsageEvents
    \/ \E outcome \in CleanupOutcomes : Cleanup(outcome)

GatewaySpec == Init /\ [][GatewayNext]_vars

----------------------------------------------------------------------------
(* Properties of the tool gateway *)

\* C24: handle_sampling never raises: for every sampling request and every
\* failure while it is served (the conversion of the request, the model
\* call, a reply without a choice or without text, the token counter) it
\* returns a result with stopReason "error" and the error in its text, and
\* with the generated text and stopReason "end_turn" when nothing failed.
C24_SamplingNeverRaises ==
    [][ \A request \in SamplingRequests, reply \in SamplingReplies :
            HandleSampling(request, reply) =>
                /\ ~gateway_op'.raised
                /\ IF reply = "text" /\ "blocks" \notin SeqToSet(request.messages)
                   THEN /\ gateway_op'.text = Str("generated")
                        /\ gateway_op'.stopReason = "end_turn"
                   ELSE /\ gateway_op'.text = SamplingError("error")
                        /\ gateway_op'.stopReason = "error" ]_vars

\* C25: read_resource asks the connected backends in order, passes over a
\* backend whose read fails, and returns what the first backend whose read
\* succeeds returns, asking no backend after it; it raises exactly when
\* the read of every connected backend failed or no backend is connected.
C25_FirstSuccessInOrder ==
    [][ \A readable \in SUBSET ServerSet :
            ReadResource(readable) =>
                LET order == SessionOrder(sessions, 1)
                    hit == { n \in 1..Len(order) : order[n] \in readable }
                    done == gateway_op' IN
                /\ SeqToSet(order) = sessions
                /\ done.raised <=> hit = {}
                /\ done.raised => done.queried = order
                /\ ~done.raised =>
                      /\ done.server = order[Len(done.queried)]
                      /\ done.server \in readable
                      /\ done.queried = SubSeq(order, 1, Len(done.queried))
                      /\ \A n \in hit : n >= Len(done.queried) ]_vars

\* the read of the first backend failed and the second backend served it
C25_Witness ==
    /\ gateway_op.op = "read_resource"
    /\ gateway_op.queried = << "arxiv", "util" >>
    /\ gateway_op.server = "util"
    /\ ~gateway_op.raised

\* the servers in queried whose answer lists the name, in order
Listing(answers, queried, name) ==
    SelectSeq(queried, LAMBDA s : answers[s].ok /\ name \in SeqToSet(answers[s].tools))

\* C26: the catalog list_tools returns holds one descriptor for each tool
\* name, also when two backends list the same name, and call_tool routes a
\* name to the last backend, in iteration order, that lists it.
C26_CatalogNamesUnique ==
    [][ \A answers \in GatewayAnswers :
            ListTools(answers) =>
                LET catalog == gateway_op'.tools IN
                \A name \in SeqToSet(catalog) :
                    /\ Cardinality({ n \in 1..Len(catalog) : catalog[n] = name }) = 1
                    /\ call_tool(name, tool_to_server', sessions').server
                          = Last(Listing(answers, gateway_op'.queried, name)) ]_vars

C28_CleanupReleasesAll ==
    /\ [][ \A outcome \in CleanupOutcomes :
              Cleanup(outcome) => (exit_stack' = << >> /\ sessions' = {}) ]_vars
    /\ [](gateway_op.op \in { "call_tool", "read_resource" } =>
             \A n \in 1..Len(gateway_op.queried) : Live(gateway_op.queried[n]))

----------------------------------------------------------------------------
(* Token usage of the model calls *)

\* ChatEngine.__init__ with the settings the environment may give:
\* TOKEN_USAGE_ENABLED set or not, and an endpoint that reports usage or not
UsageInit ==
    /\ messages = << Message("system", Str(SYSTEM_PROMPT), NoId, << >>) >>
    /\ conversation_id = NoId
    /\ persistent_enabled = FALSE
    /\ memory_dirty = FALSE
    /\ token_usage_enabled \in BOOLEAN
    /\ server_usage \in BOOLEAN
    /\ memory_summary_enabled = TRUE
    /\ sessions = {}
    /\ tool_to_server = NoRoute
    /\ sampling_usage_events = << >>
    /\ exit_stack = << >>
    /\ gateway_op = NoOp
    /\ list_call = NoListCall
    /\ st_title = << >>
    /\ st_messages = << >>
    /\ st_summary = {}
    /\ st_deleted = {}
    /\ st_now = 0
    /\ listed = NoListing
    /\ summary_task = NoTask
    /\ tasks = {}
    /\ summarizing = {}
    /\ transcript = {}
    /\ session_ops = 0
    /\ pc = "new"
    /\ max_turns = 0
    /\ i = 0
    /\ tools = << >>
    /\ msg = NoMsg
    /\ k = 0
    /\ func_name = NoneVal
    /\ events = << >>
    /\ llm_calls = << >>
    /\ gateway_calls = << >>
    /\ hist0 = << >>
    /\ calls_granted = 0
    /\ faults = 0

UsageSpec == UsageInit /\ [][Next]_vars

\* a usage event of a model call of process_turn
LLMUsage(e) == e.type = "usage" /\ e.data = Str("llm")

LLMStart(e) == e.type = "step_start" /\ e.step_type = "llm"

\* the method the settings and the endpoint give, NoneVal for no event
UsageMethod ==
    IF token_usage_enabled THEN "local"
    ELSE IF server_usage THEN "server"
    ELSE NoneVal

ReturnedCalls == { n \in 1..Len(llm_calls) : llm_calls[n].result = "returned" }

\* C29: each model call of process_turn, of the loop or the forced final
\* one, yields at most one usage event with source llm, right after its
\* step_start and before its step_output: with method local when local
\* estimation is enabled, else with method server when the endpoint reported
\* usage, else none; a failed model call yields none.
C29_UsagePerModelCall ==
    /\ \A n \in 1..Len(events) :
          LLMUsage(events[n]) =>
              /\ events[n].step_type = UsageMethod
              /\ n > 1 /\ LLMStart(events[n - 1])
              /\ n < Len(events) /\ events[n + 1].type = "step_output"
    /\ \A n \in 1..(Len(events) - 1) :
          LLMStart(events[n]) =>
              \/ events[n + 1].type = "error"
              \/ LLMUsage(events[n + 1])
              \/ UsageMethod = NoneVal /\ events[n + 1].type = "step_output"
    /\ Cardinality({ n \in 1..Len(events) : LLMUsage(events[n]) })
          = IF UsageMethod = NoneVal THEN 0 ELSE Cardinality(ReturnedCalls)

\* local estimation is off and the endpoint reports usage: a call of the
\* loop and the forced final call have yielded one server usage event each,
\* the last one between the step_start and the step_output of the final call
C29_Witness ==
    /\ ~token_usage_enabled /\ server_usage
    /\ pc = "end_final"
    /\ Cardinality(ReturnedCalls) = 2
    /\ Len(events) >= 3
    /\ LLMStart(events[Len(events) - 3])
    /\ events[Len(events) - 2] = Event("usage", "server", Str("llm"))
    /\ events[Len(events) - 1].type = "step_output"
    /\ Cardinality({ n \in 1..Len(events) : LLMUsage(events[n]) }) = 2

----------------------------------------------------------------------------
(* What a tool returns: shown, kept in the history, stored *)

DisplayOutputs == { Str("short_text"), Str("json_list"), Str("long_text") }

DisplayTurn ==
    \/ \E answers \in AnswerSets : ListToolsReturn(answers)
    \/ \E answers \in AnswerSets : ListToolsFail(answers)
    \/ LLMFail
    \/ \E c \in ReplyContents, u \in ServerUsages, o \in StoreOutcomes :
          LLMAnswer(c, u, o)
    \/ \E r \in RequestSeqs, u \in ServerUsages :
          LLMToolCalls(NoneContent, r, u)
    \/ ToolDispatch
    \/ \E t \in DisplayOutputs : ToolReturn(t)
    \/ ToolRaise
    \/ FinalFail
    \/ \E r \in FinalReplies, u \in ServerUsages, o \in StoreOutcomes :
          FinalReturn(r.content, r.requests, u, o)

DisplayNext ==
    \/ \E connected \in SUBSET ServerSet : Initialize(connected)
    \/ \E p \in BOOLEAN : StartConversation(p)
    \/ \E c \in UserContents, o \in StoreOutcomes : AddUserMessage(Str(c), o)
    \/ \E b \in 0..MaxBudget : ProcessTurn(b)
    \/ DisplayTurn
    \/ Close

DisplaySpec == Init /\ [][DisplayNext]_vars

\* the tool message of the history holds the text the tool returned
KeptInHistory(t) ==
    /\ Last(messages').role = "tool"
    /\ Last(messages').content = t

\* the store got a row that holds the text the tool returned
KeptInStore(t) ==
    /\ Len(st_messages') = Len(st_messages) + 1
    /\ Last(st_messages').conversation_id = conversation_id
    /\ Last(st_messages').content = t

\* the step_output of the tool call shows the text, with an ellipsis after
\* the first 500 characters only when the text is longer
ShownCutOnlyWhenLong(t) ==
    LET shown == events'[Len(events) + 1]
        chars == OutputChars(t.text) IN
    /\ shown.type = "step_output"
    /\ func_name = "search_arxiv" /\ t.text = "json_list"
          => shown.data.text = "simplified"
    /\ ~(func_name = "search_arxiv" /\ t.text = "json_list")
          => IF Len(chars) > DisplayLimit
             THEN shown.data.detail
                    = SubSeq(chars, 1, DisplayLimit) \o << ".", ".", "." >>
             ELSE shown.data.detail = chars

\* C30: for every tool output the full text is what is appended to the
\* message list and, in a persistent conversation, to the store, while the
\* step_output shown cuts with an ellipsis only outputs longer than 500
\* characters.
C30_DisplayIndependentOfStorage ==
    [][ \A t \in DisplayOutputs :
           ToolReturn(t) =>
               /\ KeptInHistory(t)
               /\ InPersistent => KeptInStore(t)
               /\ ShownCutOnlyWhenLong(t) ]_vars

----------------------------------------------------------------------------
(* Properties of the tool calls of a reply *)

\* the tool messages that answer the first n tool calls of the reply, as the
\* last n messages of the history after the reply itself
AnsweredInOrder(msgs, reply, n) ==
    /\ Len(msgs) > n
    /\ msgs[Len(msgs) - n] = model_dump(reply)
    /\ \A j \in 1..n :
          /\ msgs[Len(msgs) - n + j].role = "tool"
          /\ msgs[Len(msgs) - n + j].tool_call_id = reply.tool_calls[j].id

\* C31: the tool calls of one reply are executed one after the other in the
\* order of the reply: while the k-th is started or awaited, the history ends
\* with the reply and the tool messages of the k-1 calls before it, in that
\* order, and a call is sent to the gateway only for the k-th, one at a time.
C31_SequentialToolCalls ==
    /\ [](pc \in { "tool", "tool_call" } =>
             /\ k \in 1..Len(msg.tool_calls)
             /\ AnsweredInOrder(messages, msg, k - 1))
    /\ [][ Len(gateway_calls') > Len(gateway_calls) =>
              /\ pc = "tool"
              /\ Len(gateway_calls') = Len(gateway_calls) + 1
              /\ Last(gateway_calls').name
                    = ResolveToolName(msg.tool_calls[k].name, tools).name
              /\ AnsweredInOrder(messages, msg, k - 1) ]_vars

\* the second tool call of a reply is awaited, after the error of the first
\* was appended as its tool message
C31_Witness ==
    /\ pc = "tool_call"
    /\ k = 2
    /\ Len(msg.tool_calls) = 2
    /\ Last(messages).role = "tool"
    /\ Last(messages).tool_call_id = msg.tool_calls[1].id
    /\ Last(messages).content = ErrorMsg(NotFoundError(tools))
    /\ Len(gateway_calls) = 1
    /\ Last(gateway_calls).name = "calc"

\* C36: a tool call reaches the gateway only with a name of the turn's
\* catalog; a requested "search" with neither "search" nor "search_arxiv" in
\* the catalog is not sent to the gateway and fails with the "tool not
\* found" error that lists the available names.
C36_OnlyValidatedNames ==
    /\ [](\A n \in 1..Len(gateway_calls) :
             gateway_calls[n].name \in SeqToSet(tools))
    /\ [][ ( /\ ToolDispatch
              /\ msg.tool_calls[k].name = "search"
              /\ ParseArguments(msg.tool_calls[k].arguments).raised = FALSE
              /\ SeqToSet(tools) \cap { "search", "search_arxiv" } = {} )
            => /\ gateway_calls' = gateway_calls
               /\ Last(messages').content = ErrorMsg(NotFoundError(tools)) ]_vars

\* C38: the arguments process_turn passes to call_tool are always a
\* mapping: the parsed one or the empty one.
C38_ArgumentsAreMapping ==
    \A n \in 1..Len(gateway_calls) : gateway_calls[n].arguments.type = "dict"

----------------------------------------------------------------------------
(* Properties of the scheduler's task *)

\* C39: the scheduler keeps repeating while it is started and not stopped:
\* a summarization that fails in a tick does not end the task of the
\* handle, and when that task has ended, start_summary_scheduler starts a
\* fresh one.
C39_SchedulerKeepsRepeating ==
    /\ [][ \A caller \in 1..MaxTasks :
              (caller = summary_task /\ SummaryFail(caller)) => Running' ]_vars
    /\ [](summary_task # NoTask /\ summary_task \notin tasks =>
             LET started == start_summary_scheduler(summary_task, tasks) IN
             /\ started.summary_task \in started.tasks
             /\ started.summary_task # summary_task \/ started.tasks # tasks)

----------------------------------------------------------------------------
(* Sampling requests of a backend while it runs a tool *)

\* sampling requests of one text message without parameters, and what the
\* model call made for them does
ToolSamplingRequests ==
    { r \in SamplingRequests :
        r.messages = << "text" >> /\ r.maxTokens = NoneVal /\ r.temperature = NoneVal }

ToolSamplingReplies == { "text", "call_fails" }

\* the backend that runs the tool call sends a sampling request over its
\* session, and handle_sampling answers it while process_turn awaits the
\* tool's result
SamplingInTool(request, reply) ==
    /\ pc = "tool_call"
    /\ Len(sampling_usage_events) < MaxSamplingEvents
    /\ LET r == handle_sampling(request, reply, token_usage_enabled,
                                sampling_usage_events) IN
       /\ ~r.raised
       /\ sampling_usage_events' = r.buffer
       /\ gateway_op' = [ NoOp EXCEPT !.op = "handle_sampling",
                                      !.text = r.text,
                                      !.stopReason = r.stopReason ]
    /\ UNCHANGED << list_call, messages, conversation_id, persistent_enabled, memory_dirty,
                    settings_vars, sessions, tool_to_server, exit_stack,
                    store_vars, st_summary, search_vars, scheduler_vars,
                    session_ops, pc, turn_locals, calls_granted, faults >>

SamplingNext ==
    \/ Next
    \/ \E request \in ToolSamplingRequests, reply \in ToolSamplingReplies :
          SamplingInTool(request, reply)

SamplingSpec == Init /\ [][SamplingNext]_vars

\* the usage events of sampling requests among the events yielded
CountSampling(evts) ==
    Cardinality({ n \in 1..Len(evts) : evts[n] = SamplingUsage })

\* C40: the usage events that handle_sampling buffers while a tool call runs
\* are yielded exactly once within the step of that tool call, whether the
\* call succeeds or fails: when the step ends each buffered event was
\* yielded and the buffer is empty, so none is left for a later tool call,
\* model call or turn.
C40_SamplingUsageWithinToolStep ==
    /\ [][ (pc = "tool_call" /\ pc' # "tool_call") =>
              CountSampling(events')
                = CountSampling(events) + Len(sampling_usage_events) ]_vars
    /\ [](pc # "tool_call" => sampling_usage_events = << >>)

----------------------------------------------------------------------------
(* The catalog of a turn *)

\* C32, as claimed: the catalog is queried on each iteration of the loop, so
\* every model call of the loop is made by the step that received the
\* catalog's answer.
C32_CatalogPerIteration ==
    [][ (Len(llm_calls') > Len(llm_calls) /\ Last(llm_calls').at = "loop")
          => pc = "list_tools" ]_vars

\* C32, amended: the catalog is queried once, before the loop; each model
\* call of the loop in the turn is offered that list, the list changes only
\* with the answer to that query, and a requested name that is neither in it
\* nor "search" is not sent to the gateway.
C32_CatalogPerTurn ==
    /\ [](\A n \in 1..Len(llm_calls) :
             llm_calls[n].at = "loop" => llm_calls[n].params.tools = tools)
    /\ [][ tools' # tools => (pc = "list_tools" \/ tools' = << >>) ]_vars
    /\ [][ ( /\ ToolDispatch
              /\ msg.tool_calls[k].name \notin SeqToSet(tools) \cup { "search" } )
            => gateway_calls' = gateway_calls ]_vars

\* the second model call of the loop of a turn is awaited, offered the
\* list the first one was offered, after a tool call in between
C32_Witness ==
    /\ pc = "llm"
    /\ Len(llm_calls) = 2
    /\ llm_calls[1].at = "loop" /\ llm_calls[2].at = "loop"
    /\ llm_calls[1].params.tools = << "search_arxiv", "calc" >>
    /\ llm_calls[2].params.tools = llm_calls[1].params.tools
    /\ llm_calls[2].params.offered
    /\ Len(gateway_calls) = 1

----------------------------------------------------------------------------
(* list_tools of the gateway, from await to await *)

\* the index in Servers of the first session after the n-th, 0 for none:
\* "for server_name, session in self.sessions.items()"
NextSession(n) ==
    LET later == { m \in (n + 1)..Len(Servers) : Servers[m] \in sessions } IN
    IF later = {} THEN 0 ELSE CHOOSE m \in later : \A o \in later : m <= o

\* the tools every session lists, each time it is asked
StableAnswers ==
    [ arxiv |-> ListAnswer(TRUE, << "search_arxiv" >>),
      util  |-> ListAnswer(TRUE, << "calc" >>) ]

\* list_tools returns all_tools
ListToolsResult(all_tools) ==
    [ NoOp EXCEPT !.op = "list_tools",
                  !.queried = SessionOrder(sessions, 1),
                  !.tools = all_tools ]

\* MCPClientWrapper.list_tools to its first await: the routing table is
\* cleared and the first session is asked; without a session it returns
ListToolsBegin ==
    /\ pc = "initialized"
    /\ list_call.n = 0
    /\ tool_to_server' = NoRoute
    /\ IF NextSession(0) = 0
       THEN /\ list_call' = NoListCall
            /\ gateway_op' = ListToolsResult(<< >>)
       ELSE /\ list_call' = [ n |-> NextSession(0), all_tools |-> << >>,
                              previous |-> tool_to_server ]
            /\ UNCHANGED gateway_op
    /\ UNCHANGED << messages, conversation_id, persistent_enabled, memory_dirty,
                    settings_vars, sessions, sampling_usage_events, exit_stack,
                    store_vars, st_summary, search_vars, scheduler_vars,
                    session_ops, pc, turn_locals, calls_granted, faults >>

\* the session asked answers: its tools are registered, or it is skipped
\* when it raised; then the next session is asked, or list_tools returns
ListToolsAnswer(answer) ==
    /\ list_call.n > 0
    /\ LET so_far == [ tools |-> list_call.all_tools,
                       tool_to_server |-> tool_to_server ]
           acc == IF answer.ok
                  THEN RegisterTools(so_far, Servers[list_call.n], answer.tools, 1)
                  ELSE so_far IN
       /\ tool_to_server' = acc.tool_to_server
       /\ IF NextSession(list_call.n) = 0
          THEN /\ list_call' = NoListCall
               /\ gateway_op' = ListToolsResult(acc.tools)
          ELSE /\ list_call' = [ list_call EXCEPT !.n = NextSession(list_call.n),
                                                  !.all_tools = acc.tools ]
               /\ UNCHANGED gateway_op
    /\ UNCHANGED << messages, conversation_id, persistent_enabled, memory_dirty,
                    settings_vars, sessions, sampling_usage_events, exit_stack,
                    store_vars, st_summary, search_vars, scheduler_vars,
                    session_ops, pc, turn_locals, calls_granted, faults >>

\* the gateway with callers that interleave at its awaits
RebuildNext ==
    \/ \E outcomes \in [ ServerSet -> ConnectOutcomes ] : Connect(outcomes)
    \/ ListToolsBegin
    \/ list_call.n > 0 /\ ListToolsAnswer(StableAnswers[Servers[list_call.n]])
    \/ \E name \in RequestNames : CallTool(name)

RebuildSpec == Init /\ [][RebuildNext]_vars

\* the routing table a list_tools call gives when it returns
Complete == Listed(StableAnswers).tool_to_server

\* C33: the routing table is never observed half-built: while a list_tools
\* call is in progress the table is the complete previous one or the
\* complete new one, and a call_tool then, for a tool that is in both, is
\* not answered with "not found".
C33_RoutingTableNeverHalfBuilt ==
    /\ [](list_call.n > 0 => tool_to_server \in { list_call.previous, Complete })
    /\ [][ \A name \in ToolNames :
              ( /\ CallTool(name)
                /\ list_call.n > 0
                /\ list_call.previous[name] # NoneVal
                /\ Complete[name] # NoneVal )
              => ~gateway_op'.raised ]_vars

----------------------------------------------------------------------------
(* Properties of the history and the dirty flag *)

\* C34: the dirty flag means what the glossary says: whenever the active
\* persistent conversation has stored messages that its stored summary does
\* not reflect, the flag is set.
C34_DirtyFlagMeansUnsummarized ==
    ( /\ InPersistent
      /\ get_messages(st_messages, conversation_id) # << >>
      /\ ~Reflected ) => memory_dirty

\* C35: the in-memory history always begins with the system prompt, and no
\* system-role message is written to the store.
C35_SystemPromptFirstNeverStored ==
    /\ messages # << >>
    /\ messages[1] = Message("system", Str(SYSTEM_PROMPT), NoId, << >>)
    /\ \A n \in 1..Len(st_messages) : st_messages[n].role # "system"

\* a conversation with a stored summary and two stored user messages was
\* loaded: the history is the system prompt, the summary as a second
\* system message, and the stored messages
C35_Witness ==
    /\ InPersistent
    /\ Len(messages) >= 4
    /\ messages[2].role = "system"
    /\ messages[2].content = SummaryNote(get_summary(st_summary, conversation_id))
    /\ messages[3].role = "user"
    /\ Last(messages).role = "user"
    /\ Len(get_messages(st_messages, conversation_id)) = Len(messages) - 2

\* every assistant message with tool calls is followed by one tool message
\* for each of its calls, with the call's id, in the order of the calls,
\* and by no further tool message
Paired(msgs) ==
    \A a \in 1..Len(msgs) :
        (msgs[a].role = "assistant" /\ msgs[a].tool_calls # << >>) =>
            LET n == Len(msgs[a].tool_calls) IN
            /\ a + n <= Len(msgs)
            /\ \A j \in 1..n :
                  /\ msgs[a + j].role = "tool"
                  /\ msgs[a + j].tool_call_id = msgs[a].tool_calls[j].id
            /\ a + n < Len(msgs) => msgs[a + n + 1].role # "tool"

\* C37: whenever process_turn has ended, by a message, an error, the
\* exhausted budget or an exception, every assistant message with tool calls
\* in the history is followed by exactly one tool message per requested
\* call, with its id and in the order of the calls.
C37_ToolCallsAnsweredAtEnd ==
    pc \in EndStates => Paired(messages)

====
